---------------------------- MODULE Spec2Model ----------------------------
(***************************************************************************)
(* Model of the colour-statistics engine of mh-ai-tools and of the two     *)
(* objects around it that keep state:                                      *)
(*   src/src/controllers/image_controller.py  (ImageController)            *)
(*   src/src/lib/image_color.py               (module-level copies)        *)
(*   src/src/controllers/log_controller.py    (LogController)              *)
(*   src/src/ui/image_area.py                 (ImageArea)                  *)
(*                                                                         *)
(* Number representation.  The Python code works on floats.  The model     *)
(* keeps every quantity exact:                                             *)
(*   - a rational is a pair <<n, d>> with d > 0 in lowest terms;           *)
(*   - a standard deviation x ** 0.5 is kept as its radicand,              *)
(*     [radicand |-> x], so "sd == 0" is "radicand is zero";               *)
(*   - the value returned by transform_value is rat + coef * sqrt(rad),    *)
(*     [rat |-> A, coef |-> B, rad |-> R];                                 *)
(*   - round() is Python's: nearest integer, a tie goes to the even one.   *)
(* A QImage is a raw 32-bit pixel buffer; a pixel is                       *)
(* [hi |-> bits 24..31, lo |-> bits 0..23] so that no value exceeds the    *)
(* checker's integer range.                                                *)
(***************************************************************************)
EXTENDS Integers, Sequences, FiniteSets, TLC

VARIABLES
    image,               \* the QImage handed to the call (apply mutates it in place)
    reference_image,     \* the reference QImage of a lighting transfer
    region,              \* the (x1, y1, x2, y2) tuple of the call
    color_stats,         \* argument color_stats of apply_region_rgb_color_stats
    source_color_stats,  \* argument source_color_stats / target_color_stats
    ret,                 \* the value the last call returned
    op,                  \* which call was last made ("idle" before any)
    before,              \* the caller's image as it was when the call was made
    set_pixel_calls,     \* the setPixel calls the last call made, in order
    accum,               \* weight_buffer and color_buffer when a transfer returned
    tv_args,             \* the arguments of a transform_value call
    _listeners,          \* LogController._listeners
    _similarity_listeners, \* LogController._similarity_listeners
    listener_calls,      \* the listener calls the last LogController call made, in order
    log_args,            \* the argument of the last LogController call
    image_pixmap,        \* ImageArea.image_pixmap, as the QImage it holds
    selection_box,       \* ImageArea.selection_box
    drawing,             \* ImageArea.drawing
    start_point,         \* ImageArea.start_point
    current_point,       \* ImageArea.current_point
    region_color_stats,  \* ImageArea.region_color_stats (ImageArea.region is region)
    applies              \* how many colour-apply calls the ImageArea has served

logvars == <<_listeners, _similarity_listeners, listener_calls, log_args>>

areavars == <<image_pixmap, selection_box, drawing, start_point, current_point,
              region_color_stats, applies>>

vars == <<image, reference_image, region, color_stats, source_color_stats,
          ret, op, before, set_pixel_calls, accum, tv_args, logvars, areavars>>

(***************************************************************************)
(* Bounds of the model.                                                    *)
(***************************************************************************)
MaxW == 2          \* width of the small buffers
MaxH == 2          \* height of the small buffers
RoundSpan == 1     \* round() saturates this far outside 0..255

(***************************************************************************)
(* Exact arithmetic.                                                       *)
(***************************************************************************)
Abs(n) == IF n < 0 THEN 0 - n ELSE n

Sign(n) == IF n < 0 THEN 0 - 1 ELSE IF n = 0 THEN 0 ELSE 1

Min(a, b) == IF a < b THEN a ELSE b

Max(a, b) == IF a > b THEN a ELSE b

RECURSIVE GCD(_, _)
GCD(a, b) == IF b = 0 THEN a ELSE GCD(b, a % b)

\* The rational n / d (d # 0) in lowest terms with a positive denominator.
Rat(n, d) ==
    LET g == GCD(Abs(n), Abs(d))
        s == IF d < 0 THEN 0 - 1 ELSE 1
    IN  <<(s * n) \div g, (s * d) \div g>>

RInt(n) == <<n, 1>>

\* Sums and differences over the least common denominator, which keeps the
\* intermediate integers small.
RAdd(p, q) ==
    LET g == GCD(p[2], q[2])
    IN  Rat(p[1] * (q[2] \div g) + q[1] * (p[2] \div g), (p[2] \div g) * q[2])

RSub(p, q) == RAdd(p, <<0 - q[1], q[2]>>)

RMul(p, q) ==
    LET g1 == GCD(Abs(p[1]), q[2])
        g2 == GCD(Abs(q[1]), p[2])
    IN  IF p[1] = 0 \/ q[1] = 0 THEN <<0, 1>>
        ELSE <<(p[1] \div g1) * (q[1] \div g2), (p[2] \div g2) * (q[2] \div g1)>>

RDiv(p, q) == RMul(p, Rat(q[2], q[1]))

RSquare(p) == <<p[1] * p[1], p[2] * p[2]>>

RIsZero(p) == p[1] = 0

\* Sign of a/b - c/d for a, c >= 0 and b, d > 0, by continued fractions
\* (no product is formed, so nothing overflows).
RECURSIVE CmpFrac(_, _, _, _)
CmpFrac(a, b, c, d) ==
    LET qa == a \div b
        qc == c \div d
        ra == a % b
        rc == c % d
    IN  IF qa # qc THEN (IF qa > qc THEN 1 ELSE 0 - 1)
        ELSE IF ra = 0 /\ rc = 0 THEN 0
        ELSE IF ra = 0 THEN 0 - 1
        ELSE IF rc = 0 THEN 1
        ELSE CmpFrac(d, rc, b, ra)

\* Sign of p - q for rationals p, q.
RCmp(p, q) ==
    IF Sign(p[1]) # Sign(q[1]) THEN (IF Sign(p[1]) > Sign(q[1]) THEN 1 ELSE 0 - 1)
    ELSE IF p[1] >= 0 THEN CmpFrac(p[1], p[2], q[1], q[2])
    ELSE CmpFrac(0 - q[1], q[2], 0 - p[1], p[2])

\* x ** 0.5 for a rational x >= 0, kept as its radicand.
SqrtOf(x) == [radicand |-> x]

SdIsZero(sd) == RIsZero(sd.radicand)

\* A float that is a plain rational, as a value of transform_value's type.
RealOf(p) == [rat |-> p, coef |-> <<0, 1>>, rad |-> <<0, 1>>]

\* Sign of (x.rat + x.coef * sqrt(x.rad)) - t, for a rational t.
\* Sign of s * sqrt(rad) - u for a sign s # 0 and rationals rad > 0, u # 0
\* where w = u / coef and coef has sign s.
SurdCmp(s, rad, u, w) ==
    IF Sign(u[1]) # s THEN s
    ELSE s * CmpFrac(rad[1], rad[2], w[1] * w[1], w[2] * w[2])

RealCmpAt(x, u) ==
    IF x.coef[1] = 0 \/ RIsZero(x.rad) THEN 0 - Sign(u[1])
    ELSE IF u[1] = 0 THEN Sign(x.coef[1])
    ELSE SurdCmp(Sign(x.coef[1]), x.rad, u, RDiv(u, x.coef))

RealCmp(x, t) == RealCmpAt(x, RSub(t, x.rat))

\* Python round(x) >= k: x is above k - 1/2, or exactly there with k even.
RoundAtLeast(x, k) ==
    LET c == RealCmp(x, <<2 * k - 1, 2>>)
    IN  c > 0 \/ (c = 0 /\ k % 2 = 0)

\* The largest k in lo..hi with round(x) >= k, given that round(x) >= lo.
RECURSIVE RoundSearch(_, _, _)
RoundSearch(x, lo, hi) ==
    IF lo = hi THEN lo
    ELSE LET mid == (lo + hi + 1) \div 2
         IN  IF RoundAtLeast(x, mid) THEN RoundSearch(x, mid, hi)
             ELSE RoundSearch(x, lo, mid - 1)

\* Python round(p) for a rational p: the nearest integer, a tie to the even one.
RoundRat(p) ==
    LET k == (2 * p[1] + p[2]) \div (2 * p[2])
    IN  IF (2 * p[1] + p[2]) % (2 * p[2]) = 0 /\ k % 2 # 0 THEN k - 1 ELSE k

\* Python round(x); results further than RoundSpan outside 0..255 saturate,
\* which no caller can observe: every caller clamps the result to 0..255.
Round(x) ==
    IF x.coef[1] = 0 \/ RIsZero(x.rad)
    THEN Max(0 - RoundSpan, Min(255 + RoundSpan, RoundRat(x.rat)))
    ELSE RoundSearch(x, 0 - RoundSpan, 255 + RoundSpan)

(***************************************************************************)
(* QImage: width(), height(), pixel(x, y), setPixel(x, y, v), copy().      *)
(***************************************************************************)
Coords(w, h) == (0 .. w - 1) \X (0 .. h - 1)

\* The 32-bit value v < 2^31 as a pixel.
PixelOf(v) == [hi |-> (v \div 16777216) % 256, lo |-> v % 16777216]

\* (pixel >> 16) & 0xFF, (pixel >> 8) & 0xFF, pixel & 0xFF
RedOf(pixel) == (pixel.lo \div 65536) % 256

GreenOf(pixel) == (pixel.lo \div 256) % 256

BlueOf(pixel) == pixel.lo % 256

\* (new_r << 16) | (new_g << 8) | new_b for channel values in 0..255
\* Faulty variant of PackRGB: the upper byte set to 255, as qRgb() packs.
PackRGBOpaque(new_r, new_g, new_b) ==
    [hi |-> 255, lo |-> new_r * 65536 + new_g * 256 + new_b]

PackRGB(new_r, new_g, new_b) == PixelOf(new_r * 65536 + new_g * 256 + new_b)

\* image.pixel(x, y): the stored value; Qt answers 12345 for a coordinate
\* outside the buffer.
PixelAt(img, x, y) ==
    IF <<x, y>> \in DOMAIN img.pixels THEN img.pixels[<<x, y>>] ELSE PixelOf(12345)

\* image.setPixel(x, y, v); Qt ignores a coordinate outside the buffer.
SetPixel(img, x, y, v) ==
    IF <<x, y>> \in DOMAIN img.pixels THEN [img EXCEPT !.pixels[<<x, y>>] = v] ELSE img

\* The values of the variables no call has set yet.
NoImage == [width |-> 0, height |-> 0, pixels |-> <<>>]

NoStats == [pixel_count |-> 0 - 1]

NoRegion == <<>>

NoAccum == <<>>

NoArgs == <<>>

\* Python's None in the attributes of the UI objects.
None == <<>>

\* LogController.__init__: both listener lists start empty.
LogControllerInit ==
    /\ _listeners = <<>>
    /\ _similarity_listeners = <<>>
    /\ listener_calls = <<>>
    /\ log_args = NoArgs

\* ImageArea.__init__: nothing loaded, nothing selected.
ImageAreaInit ==
    /\ image_pixmap = None
    /\ selection_box = None
    /\ drawing = FALSE
    /\ start_point = None
    /\ current_point = None
    /\ region_color_stats = None
    /\ applies = 0

\* Python range(a, b) as a sequence.
Range(a, b) == [i \in 1 .. Max(b - a, 0) |-> a + i - 1]

\* Python range(a, b, step) as a sequence, step > 0.
RangeStep(a, b, step) ==
    [i \in 1 .. (IF b > a THEN (b - a + step - 1) \div step ELSE 0) |-> a + (i - 1) * step]

\* The coordinates "for y in range(y1, y2 + 1): for x in range(x1, x2 + 1)"
\* visits, in order.
RECURSIVE Flatten(_)
Flatten(ss) == IF ss = <<>> THEN <<>> ELSE Head(ss) \o Flatten(Tail(ss))

\* Faulty variant of Scan: the loops stop one short, range(x1, x2) and
\* range(y1, y2), as if the region's bounds were exclusive.
ScanExclusive(x1, y1, x2, y2) ==
    LET xs == Range(x1, x2)
        ys == Range(y1, y2)
    IN  Flatten([j \in 1 .. Len(ys) |-> [i \in 1 .. Len(xs) |-> <<xs[i], ys[j]>>]])

Scan(x1, y1, x2, y2) ==
    LET xs == Range(x1, x2 + 1)
        ys == Range(y1, y2 + 1)
    IN  Flatten([j \in 1 .. Len(ys) |-> [i \in 1 .. Len(xs) |-> <<xs[i], ys[j]>>]])

\* Faulty variant of OutOfBounds: the upper edges tested with > instead of >=.
OutOfBoundsOffByOne(img, x, y) == x < 0 \/ y < 0 \/ x > img.width \/ y > img.height

\* "if x < 0 or y < 0 or x >= image.width() or y >= image.height(): continue"
OutOfBounds(img, x, y) == x < 0 \/ y < 0 \/ x >= img.width \/ y >= img.height


(***************************************************************************)
(* RGBColorStats and calculate_region_rgb_color_stats.                     *)
(***************************************************************************)
\* The sum of the integers vs[lo], ..., vs[hi], added up by halves.
RECURSIVE SumIntsIn(_, _, _)
SumIntsIn(vs, lo, hi) ==
    IF lo > hi THEN 0
    ELSE IF lo = hi THEN vs[lo]
    ELSE SumIntsIn(vs, lo, (lo + hi) \div 2) + SumIntsIn(vs, (lo + hi) \div 2 + 1, hi)

SumInts(vs) == SumIntsIn(vs, 1, Len(vs))

\* The sum of vs[lo], ..., vs[hi], added up by halves: the sums are exact,
\* so their order does not matter, and the recursion stays shallow.
\*
\* TLC evaluates a definition of a LET and an argument of an operator where
\* it is first used, which is inside the evaluation of what uses it.  A
\* guard "v = v" (always true) makes it evaluate v at the guard instead;
\* it changes no value, and keeps the evaluation of long computations from
\* nesting deeply.
RECURSIVE SumRatsIn(_, _, _)
SumRatsIn(vs, lo, hi) ==
    IF lo > hi THEN <<0, 1>>
    ELSE IF lo = hi THEN vs[lo]
    ELSE LET first == SumRatsIn(vs, lo, (lo + hi) \div 2)
             second == SumRatsIn(vs, (lo + hi) \div 2 + 1, hi)
         IN  CASE first = first /\ second = second -> RAdd(first, second)

SumRats(vs) == SumRatsIn(vs, 1, Len(vs))

\* Faulty variant of SquaredDiffSum: the mean is not subtracted.
RawSquareSum(values, avg) ==
    SumRats([i \in 1 .. Len(values) |-> RMul(values[i], values[i])])

\* sum((x - avg) ** 2 for x in values), values a sequence of rationals; the
\* average is evaluated before the sum.
SquaredDiffSum(values, avg) ==
    CASE avg = avg -> SumRats([i \in 1 .. Len(values) |-> RSquare(RSub(values[i], avg))])

RGBColorStats(pixel_count, avg_r, avg_g, avg_b, avg_white, r_sd, g_sd, b_sd, white_sd) ==
    [pixel_count |-> pixel_count,
     avg_r |-> avg_r, avg_g |-> avg_g, avg_b |-> avg_b, avg_white |-> avg_white,
     r_sd |-> r_sd, g_sd |-> g_sd, b_sd |-> b_sd, white_sd |-> white_sd]

\* The number 0 as an average and as a standard deviation.
ZeroAvg == <<0, 1>>

ZeroSd == SqrtOf(<<0, 1>>)

\* Faulty variant of PopulationSd: the sample formula, dividing by
\* pixel_count - 1 (by 1 for a single pixel).
SampleSd(squared_diff_sum, pixel_count) ==
    SqrtOf(RDiv(squared_diff_sum, RInt(Max(pixel_count - 1, 1))))

\* (squared_diff_sum / pixel_count) ** 0.5
PopulationSd(squared_diff_sum, pixel_count) ==
    SqrtOf(RDiv(squared_diff_sum, RInt(pixel_count)))

\* The values the first loop of calculate_region_rgb_color_stats collects
\* from the in-bounds coordinates it visits, in order.
CollectedValues(img, visited) ==
    [i \in 1 .. Len(visited) |->
        LET pixel == PixelAt(img, visited[i][1], visited[i][2])
            r == RedOf(pixel)
            g == GreenOf(pixel)
            b == BlueOf(pixel)
        IN  [r |-> r, g |-> g, b |-> b, white_value |-> Rat(r + g + b, 3)]]

\* The part of calculate_region_rgb_color_stats after the averages.
StatsOfValues(r_values, g_values, b_values, white_values, pixel_count, avg_r, avg_g, avg_b, avg_white) ==
    LET r_squared_diff_sum == SquaredDiffSum(r_values, avg_r)
        g_squared_diff_sum == SquaredDiffSum(g_values, avg_g)
        b_squared_diff_sum == SquaredDiffSum(b_values, avg_b)
        white_squared_diff_sum == SquaredDiffSum(white_values, avg_white)
        r_sd == PopulationSd(r_squared_diff_sum, pixel_count)
        g_sd == PopulationSd(g_squared_diff_sum, pixel_count)
        b_sd == PopulationSd(b_squared_diff_sum, pixel_count)
        white_sd == PopulationSd(white_squared_diff_sum, pixel_count)
    IN  RGBColorStats(pixel_count, avg_r, avg_g, avg_b, avg_white,
                      r_sd, g_sd, b_sd, white_sd)

\* The part of calculate_region_rgb_color_stats after the first loop.
StatsOfCollected(vals) ==
    LET pixel_count == Len(vals)
        r_sum == SumInts([i \in 1 .. pixel_count |-> vals[i].r])
        g_sum == SumInts([i \in 1 .. pixel_count |-> vals[i].g])
        b_sum == SumInts([i \in 1 .. pixel_count |-> vals[i].b])
        white_sum == SumRats([i \in 1 .. pixel_count |-> vals[i].white_value])
    IN  IF pixel_count = 0
        THEN RGBColorStats(0, ZeroAvg, ZeroAvg, ZeroAvg, ZeroAvg,
                           ZeroSd, ZeroSd, ZeroSd, ZeroSd)
        ELSE StatsOfValues([i \in 1 .. pixel_count |-> RInt(vals[i].r)],
                           [i \in 1 .. pixel_count |-> RInt(vals[i].g)],
                           [i \in 1 .. pixel_count |-> RInt(vals[i].b)],
                           [i \in 1 .. pixel_count |-> vals[i].white_value],
                           pixel_count,
                           Rat(r_sum, pixel_count),
                           Rat(g_sum, pixel_count),
                           Rat(b_sum, pixel_count),
                           RDiv(white_sum, RInt(pixel_count)))

\* The in-bounds coordinates the loops over the region visit, in order.
Visited(img, rg) ==
    LET InBounds(c) == ~OutOfBounds(img, c[1], c[2])
    IN  SelectSeq(Scan(rg[1], rg[2], rg[3], rg[4]), InBounds)

\* ImageController.calculate_region_rgb_color_stats.  As in Python the
\* arguments are evaluated before the call.
calculate_region_rgb_color_stats(img, rg) ==
    CASE img = img /\ rg = rg -> StatsOfCollected(CollectedValues(img, Visited(img, rg)))

(***************************************************************************)
(* transform_value and apply_region_rgb_color_stats.                       *)
(***************************************************************************)
\* Faulty variant of Clamp: no clamping.
ClampNone(n) == n

\* max(0, min(255, n))
Clamp(n) == Max(0, Min(255, n))

\* Faulty variant of transform_value: a zero-variance channel is left alone.
transform_value_keep(value, curr_avg, curr_sd, target_avg, target_sd) ==
    IF SdIsZero(curr_sd)
    THEN RealOf(value)
    ELSE [rat |-> target_avg,
          coef |-> RSub(value, curr_avg),
          rad |-> RDiv(target_sd.radicand, curr_sd.radicand)]

\* Faulty variant of transform_value: the target mean is not added back.
transform_value_uncentred(value, curr_avg, curr_sd, target_avg, target_sd) ==
    IF SdIsZero(curr_sd)
    THEN RealOf(target_avg)
    ELSE [rat |-> <<0, 1>>,
          coef |-> RSub(value, curr_avg),
          rad |-> RDiv(target_sd.radicand, curr_sd.radicand)]

\* transform_value nested in ImageController.apply_region_rgb_color_stats
transform_value(value, curr_avg, curr_sd, target_avg, target_sd) ==
    IF SdIsZero(curr_sd)
    THEN RealOf(target_avg)
    ELSE \* scaled_deviation = (value - curr_avg) * (target_sd / curr_sd)
         \* return scaled_deviation + target_avg
         [rat |-> target_avg,
          coef |-> RSub(value, curr_avg),
          rad |-> RDiv(target_sd.radicand, curr_sd.radicand)]

\* Faulty variant of the lighting copy: the ratio of the standard deviations
\* is inverted.
lighting_transform_value_inverted(value, curr_avg, curr_sd, target_avg, target_sd) ==
    IF SdIsZero(curr_sd) \/ SdIsZero(target_sd)
    THEN RealOf(target_avg)
    ELSE [rat |-> target_avg,
          coef |-> RSub(value, curr_avg),
          rad |-> RDiv(curr_sd.radicand, target_sd.radicand)]

\* transform_value nested in ImageController.apply_region_lighting_transfer
lighting_transform_value(value, curr_avg, curr_sd, target_avg, target_sd) ==
    IF SdIsZero(curr_sd)
    THEN RealOf(target_avg)
    ELSE [rat |-> target_avg,
          coef |-> RSub(value, curr_avg),
          rad |-> RDiv(target_sd.radicand, curr_sd.radicand)]

\* transform_value nested in lib/image_color.apply_region_rgb_color_stats
lib_transform_value(value, curr_avg, curr_sd, target_avg, target_sd) ==
    IF SdIsZero(curr_sd)
    THEN RealOf(target_avg)
    ELSE [rat |-> target_avg,
          coef |-> RSub(value, curr_avg),
          rad |-> RDiv(target_sd.radicand, curr_sd.radicand)]

\* A setPixel call: the coordinate and the three channel values packed into
\* the pixel written.
SetPixelCall(x, y, new_r, new_g, new_b) ==
    [x |-> x, y |-> y, r |-> new_r, g |-> new_g, b |-> new_b]

\* Faulty variant of NewPixel: the blue channel is transformed with the
\* white statistics.
NewPixelWhite(img, x, y, cs, scs) ==
    LET pixel == PixelAt(img, x, y)
        r == RedOf(pixel)
        g == GreenOf(pixel)
        b == BlueOf(pixel)
        new_r == transform_value(RInt(r), cs.avg_r, cs.r_sd, scs.avg_r, scs.r_sd)
        new_g == transform_value(RInt(g), cs.avg_g, cs.g_sd, scs.avg_g, scs.g_sd)
        new_b == transform_value(RInt(b), cs.avg_white, cs.white_sd,
                                 scs.avg_white, scs.white_sd)
    IN  SetPixelCall(x, y, Clamp(Round(new_r)), Clamp(Round(new_g)), Clamp(Round(new_b)))

\* The body of the pixel loop of apply_region_rgb_color_stats at an in-bounds
\* (x, y): the setPixel call it makes.
NewPixel(img, x, y, cs, scs) ==
    LET pixel == PixelAt(img, x, y)
        r == RedOf(pixel)
        g == GreenOf(pixel)
        b == BlueOf(pixel)
        new_r == transform_value(RInt(r), cs.avg_r, cs.r_sd, scs.avg_r, scs.r_sd)
        new_g == transform_value(RInt(g), cs.avg_g, cs.g_sd, scs.avg_g, scs.g_sd)
        new_b == transform_value(RInt(b), cs.avg_b, cs.b_sd, scs.avg_b, scs.b_sd)
    IN  SetPixelCall(x, y, Clamp(Round(new_r)), Clamp(Round(new_g)), Clamp(Round(new_b)))

\* Faulty variant of Written: the pixel is set one column to the right.
WrittenShifted(st, call) ==
    [image |-> SetPixel(st.image, call.x + 1, call.y, PackRGB(call.r, call.g, call.b)),
     calls |-> Append(st.calls, call)]

\* new_pixel = (new_r << 16) | (new_g << 8) | new_b; image.setPixel(x, y, new_pixel)
\* st is the image so far and the setPixel calls made so far.
Written(st, call) ==
    [image |-> SetPixel(st.image, call.x, call.y, PackRGB(call.r, call.g, call.b)),
     calls |-> Append(st.calls, call)]

\* One pass of the loop body, at the coordinate c.
ApplyStep(st, c, cs, scs) ==
    IF OutOfBounds(st.image, c[1], c[2])
    THEN st
    ELSE Written(st, NewPixel(st.image, c[1], c[2], cs, scs))

\* The passes at coords[lo], ..., coords[hi], in order: those of the first
\* half, then those of the second half on what the first half left (the
\* first half is evaluated before the second half starts).
RECURSIVE ApplyLoopIn(_, _, _, _, _, _)
ApplyLoopIn(st, coords, lo, hi, cs, scs) ==
    IF lo > hi THEN st
    ELSE IF lo = hi THEN ApplyStep(st, coords[lo], cs, scs)
    ELSE LET first == ApplyLoopIn(st, coords, lo, (lo + hi) \div 2, cs, scs)
         IN  CASE first = first ->
                     ApplyLoopIn(first, coords, (lo + hi) \div 2 + 1, hi, cs, scs)

\* The pixel loop of apply_region_rgb_color_stats over coords.
ApplyLoop(st, coords, cs, scs) == ApplyLoopIn(st, coords, 1, Len(coords), cs, scs)

\* ImageController.apply_region_rgb_color_stats: the image after the call
\* (the object passed in, which is also what is returned) and the setPixel
\* calls made.
apply_region_rgb_color_stats(img, rg, cs, scs) ==
    CASE img = img /\ rg = rg /\ cs = cs /\ scs = scs ->
        ApplyLoop([image |-> img, calls |-> <<>>], Scan(rg[1], rg[2], rg[3], rg[4]), cs, scs)

(***************************************************************************)
(* apply_region_lighting_transfer.                                         *)
(*                                                                         *)
(* The accumulation buffers are kept exact (the code holds them as         *)
(* float32).  The cosine of the falloff is replaced by Bhaskara's rational *)
(* approximation cos(pi*d) ~ (1 - 4*d^2) / (1 + d^2) for d <= 1/2, and     *)
(* mirrored for d > 1/2; like the cosine it gives weight 1 at distance 0,  *)
(* 3/4 at 1/3, 1/2 at 1/2, 1/4 at 2/3, is positive and decreasing below 1. *)
(***************************************************************************)
TILE_SIZE == 32

OVERLAP == 16

\* np.cos(norm_dist * np.pi) for 0 <= norm_dist = n / d < 1, by the
\* approximation: (1 - 4*(n/d)^2) / (1 + (n/d)^2) = (d^2 - 4*n^2) / (d^2 + n^2)
\* up to 1/2, and its mirror image -(d^2 - 4*m^2) / (d^2 + m^2) with
\* m = d - n beyond.
CosinePi(norm_dist) ==
    LET n == norm_dist[1]
        d == norm_dist[2]
        m == d - n
    IN  IF 2 * n <= d
        THEN Rat(d * d - 4 * n * n, d * d + n * n)
        ELSE Rat(4 * m * m - d * d, d * d + m * m)

\* weight = 0.5 * (1 + np.cos(norm_dist * np.pi)) for norm_dist < 1
CosineFalloff(norm_dist) == RMul(Rat(1, 2), RAdd(RInt(1), CosinePi(norm_dist)))

\* norm_dist of pixel (x, y) in the tile (tile_x1, tile_y1, tile_x2, tile_y2).
NormDist(x, y, tile) ==
    LET effective_width == tile[3] - tile[1] + 1
        effective_height == tile[4] - tile[2] + 1
        \* tile_center_x = tile_x1 + effective_width / 2; dx = abs(x - tile_center_x)
        dx == Rat(Abs(2 * (x - tile[1]) - effective_width), 2)
        dy == Rat(Abs(2 * (y - tile[2]) - effective_height), 2)
        \* max_dist_x = effective_width / 2; norm_dx = dx / max_dist_x
        norm_dx == RDiv(dx, Rat(effective_width, 2))
        norm_dy == RDiv(dy, Rat(effective_height, 2))
    IN  IF RCmp(norm_dx, norm_dy) >= 0 THEN norm_dx ELSE norm_dy

\* weight = 0 if norm_dist >= 1.0, else the cosine falloff
WeightAt(norm_dist) ==
    IF RCmp(norm_dist, RInt(1)) >= 0 THEN RInt(0) ELSE CosineFalloff(norm_dist)

\* Faulty variant of TileWeight: the distance is measured from the middle of
\* the tile's pixels, tile_x1 + (effective_width - 1) / 2.
TileWeightCentred(x, y, tile) ==
    LET effective_width == tile[3] - tile[1] + 1
        effective_height == tile[4] - tile[2] + 1
        dx == Rat(Abs(2 * (x - tile[1]) - (effective_width - 1)), 2)
        dy == Rat(Abs(2 * (y - tile[2]) - (effective_height - 1)), 2)
        norm_dx == RDiv(dx, Rat(effective_width, 2))
        norm_dy == RDiv(dy, Rat(effective_height, 2))
    IN  WeightAt(IF RCmp(norm_dx, norm_dy) >= 0 THEN norm_dx ELSE norm_dy)

\* The weight of pixel (x, y) in the tile.
TileWeight(x, y, tile) == WeightAt(NormDist(x, y, tile))

\* Faulty variant of Tiles: the tiles are not clipped to the region.
TilesUnclipped(rg) ==
    LET xs == RangeStep(rg[1], rg[3], OVERLAP)
        ys == RangeStep(rg[2], rg[4], OVERLAP)
    IN  Flatten([j \in 1 .. Len(ys) |-> [i \in 1 .. Len(xs) |->
            <<xs[i], ys[j], xs[i] + TILE_SIZE - 1, ys[j] + TILE_SIZE - 1>>]])

\* The tiles of the first pass, in order: tile_y in range(y1, y2, OVERLAP),
\* tile_x in range(x1, x2, OVERLAP), each clipped to the region, without the
\* ones the "completely outside" test skips.
Tiles(rg) ==
    LET xs == RangeStep(rg[1], rg[3], OVERLAP)
        ys == RangeStep(rg[2], rg[4], OVERLAP)
        all == Flatten([j \in 1 .. Len(ys) |-> [i \in 1 .. Len(xs) |->
                   <<xs[i], ys[j], Min(xs[i] + TILE_SIZE - 1, rg[3]),
                     Min(ys[j] + TILE_SIZE - 1, rg[4])>>]])
        Kept(tile) == ~(tile[1] >= rg[3] \/ tile[2] >= rg[4])
    IN  SelectSeq(all, Kept)

\* What one pixel of one tile adds to the buffers: its place in the region,
\* its weight and its transformed, rounded and clamped channels.
TilePixel(target_image, x, y, tile, target_stats, ref_stats, rg) ==
    LET pixel == PixelAt(target_image, x, y)
        r == RedOf(pixel)
        g == GreenOf(pixel)
        b == BlueOf(pixel)
        new_r == lighting_transform_value(RInt(r), target_stats.avg_r, target_stats.r_sd,
                                          ref_stats.avg_r, ref_stats.r_sd)
        new_g == lighting_transform_value(RInt(g), target_stats.avg_g, target_stats.g_sd,
                                          ref_stats.avg_g, ref_stats.g_sd)
        new_b == lighting_transform_value(RInt(b), target_stats.avg_b, target_stats.b_sd,
                                          ref_stats.avg_b, ref_stats.b_sd)
    IN  [rel_x |-> x - rg[1], rel_y |-> y - rg[2], weight |-> TileWeight(x, y, tile),
         new_r |-> Clamp(Round(new_r)), new_g |-> Clamp(Round(new_g)),
         new_b |-> Clamp(Round(new_b))]

\* Faulty variant of Accumulated: the colours are added without their weight.
AccumulatedUnweighted(entry, c) ==
    [weight |-> RAdd(entry.weight, c.weight),
     r |-> RAdd(entry.r, RInt(c.new_r)),
     g |-> RAdd(entry.g, RInt(c.new_g)),
     b |-> RAdd(entry.b, RInt(c.new_b))]

\* weight_buffer[rel_y, rel_x] += weight; color_buffer[rel_y, rel_x, c] += new_c * weight
Accumulated(entry, c) ==
    [weight |-> RAdd(entry.weight, c.weight),
     r |-> RAdd(entry.r, RMul(RInt(c.new_r), c.weight)),
     g |-> RAdd(entry.g, RMul(RInt(c.new_g), c.weight)),
     b |-> RAdd(entry.b, RMul(RInt(c.new_b), c.weight))]

\* Faulty variant of AccumulateTile: a tile whose target statistics have
\* pixel_count 0 is skipped.
AccumulateTileSkipEmpty(buf, target_image, tile, target_stats, ref_stats, rg) ==
    [p \in DOMAIN buf |->
        LET x == p[1] + rg[1]
            y == p[2] + rg[2]
        IN  IF /\ target_stats.pixel_count # 0
               /\ x \in tile[1] .. tile[3] /\ y \in tile[2] .. tile[4]
            THEN Accumulated(buf[p], TilePixel(target_image, x, y, tile,
                                               target_stats, ref_stats, rg))
            ELSE buf[p]]

\* The pixel loop of one tile: every pixel of the tile adds to its own
\* buffer entry, once; the loop does not test the coordinates against the
\* buffer.
AccumulateTile(buf, target_image, tile, target_stats, ref_stats, rg) ==
    [p \in DOMAIN buf |->
        LET x == p[1] + rg[1]
            y == p[2] + rg[2]
        IN  IF x \in tile[1] .. tile[3] /\ y \in tile[2] .. tile[4]
            THEN Accumulated(buf[p], TilePixel(target_image, x, y, tile,
                                               target_stats, ref_stats, rg))
            ELSE buf[p]]

\* A tile with its statistics: tile_region, target_stats and ref_stats, taken
\* from the target as passed in and from the reference.
WindowOf(tile, target_image, reference_image_) ==
    [tile |-> tile,
     target_stats |-> calculate_region_rgb_color_stats(target_image, tile),
     ref_stats |-> calculate_region_rgb_color_stats(reference_image_, tile)]

\* The tiles of the first pass with their statistics, in order.
Windows(tiles, target_image, reference_image_) ==
    [i \in 1 .. Len(tiles) |-> WindowOf(tiles[i], target_image, reference_image_)]

\* The first pass over the tiles left.
RECURSIVE FirstPass(_, _, _, _)
FirstPass(buf, windows, target_image, rg) ==
    IF windows = <<>> THEN buf
    ELSE FirstPass(
             AccumulateTile(buf, target_image, Head(windows).tile,
                            Head(windows).target_stats, Head(windows).ref_stats, rg),
             Tail(windows), target_image, rg)

\* weight_buffer and color_buffer after np.zeros: one entry per pixel of the
\* region, indexed by (rel_x, rel_y).
ZeroBuffers(width, height) ==
    [p \in Coords(width, height) |->
        [weight |-> RInt(0), r |-> RInt(0), g |-> RInt(0), b |-> RInt(0)]]

\* final_c = max(0, min(255, round(color_buffer[y, x, c] / weight_buffer[y, x])))
FinalPixel(x, y, entry) ==
    SetPixelCall(x, y, Clamp(RoundRat(RDiv(entry.r, entry.weight))),
                       Clamp(RoundRat(RDiv(entry.g, entry.weight))),
                       Clamp(RoundRat(RDiv(entry.b, entry.weight))))

\* Faulty variant of SetResultPixel: result_image is the caller's object, as
\* if "result_image = target_image" had been written without copy().
SetAliasedPixel(st, call) ==
    [target_image |-> SetPixel(st.target_image, call.x, call.y, PackRGB(call.r, call.g, call.b)),
     result_image |-> SetPixel(st.result_image, call.x, call.y, PackRGB(call.r, call.g, call.b)),
     calls |-> Append(st.calls, call)]

\* result_image.setPixel(x + x1, y + y1, final_pixel); result_image is the
\* copy made of target_image, so the caller's object is not written.
SetResultPixel(st, call) ==
    [target_image |-> st.target_image,
     result_image |-> SetPixel(st.result_image, call.x, call.y, PackRGB(call.r, call.g, call.b)),
     calls |-> Append(st.calls, call)]

\* Faulty variant of Covered: the test is >= 0, so that an entry no tile
\* gave any weight is written too (as 0 / 0, taken as 0).
CoveredOrEmpty(entry) == RCmp(entry.weight, RInt(0)) >= 0

\* "if weight_buffer[y, x] > 0"
Covered(entry) == RCmp(entry.weight, RInt(0)) > 0

\* One pass of the body of the second pass, at the buffer entry c (relative
\* to the region); only an entry of positive weight is written.
SecondPassStep(st, c, buf, rg) ==
    IF Covered(buf[c])
    THEN SetResultPixel(st, FinalPixel(c[1] + rg[1], c[2] + rg[2], buf[c]))
    ELSE st

\* The passes at coords[lo], ..., coords[hi], in order: those of the first
\* half, then those of the second half on what the first half left (the
\* first half is evaluated before the second half starts).
RECURSIVE SecondPassIn(_, _, _, _, _, _)
SecondPassIn(st, coords, lo, hi, buf, rg) ==
    IF lo > hi THEN st
    ELSE IF lo = hi THEN SecondPassStep(st, coords[lo], buf, rg)
    ELSE LET first == SecondPassIn(st, coords, lo, (lo + hi) \div 2, buf, rg)
         IN  CASE first = first ->
                     SecondPassIn(first, coords, (lo + hi) \div 2 + 1, hi, buf, rg)

\* The second pass over the buffer entries, in the order of the loops.
SecondPass(st, coords, buf, rg) == SecondPassIn(st, coords, 1, Len(coords), buf, rg)

\* The call once the buffers are filled.  raised names the exception the
\* call ends with, "" when it returns.
TransferResult(target_image, windows, buf, rg) ==
    LET done == SecondPass([target_image |-> target_image, result_image |-> target_image,
                            calls |-> <<>>],
                           Scan(0, 0, rg[3] - rg[1], rg[4] - rg[2]), buf, rg)
    IN  [raised |-> "", target_image |-> done.target_image,
         result_image |-> done.result_image, calls |-> done.calls, buffers |-> buf,
         windows |-> windows]

\* The two passes over the tiles and their statistics: the second pass
\* starts when the first has filled the buffers (the target, the tiles'
\* statistics and the buffers are evaluated in this order, before the second
\* pass).
TransferOver(target_image, windows, rg) ==
    LET buf == FirstPass(ZeroBuffers(rg[3] - rg[1] + 1, rg[4] - rg[2] + 1), windows,
                         target_image, rg)
    IN  CASE target_image = target_image /\ windows = windows /\ buf = buf ->
            TransferResult(target_image, windows, buf, rg)

\* Faulty variant of apply_region_lighting_transfer: the target is first
\* shifted as a whole, from the region's target statistics to the region's
\* reference statistics, and the windows work on the shifted target.
apply_region_lighting_transfer_shifted(target_image, reference_image_, rg) ==
    IF rg[3] - rg[1] + 1 < 0 \/ rg[4] - rg[2] + 1 < 0
    THEN [raised |-> "ValueError", target_image |-> target_image,
          result_image |-> NoImage, calls |-> <<>>, buffers |-> NoAccum,
          windows |-> <<>>]
    ELSE TransferOver(
             apply_region_rgb_color_stats(target_image, rg,
                 calculate_region_rgb_color_stats(target_image, rg),
                 calculate_region_rgb_color_stats(reference_image_, rg)).image,
             Windows(Tiles(rg),
                     apply_region_rgb_color_stats(target_image, rg,
                         calculate_region_rgb_color_stats(target_image, rg),
                         calculate_region_rgb_color_stats(reference_image_, rg)).image,
                     reference_image_),
             rg)

\* ImageController.apply_region_lighting_transfer: np.zeros raises ValueError
\* for a negative width or height, before anything is read or written.
apply_region_lighting_transfer(target_image, reference_image_, rg) ==
    LET width == rg[3] - rg[1] + 1
        height == rg[4] - rg[2] + 1
    IN  CASE target_image = target_image /\ reference_image_ = reference_image_ ->
            IF width < 0 \/ height < 0
            THEN [raised |-> "ValueError", target_image |-> target_image,
                  result_image |-> NoImage, calls |-> <<>>, buffers |-> NoAccum,
                  windows |-> <<>>]
            ELSE TransferOver(target_image,
                              Windows(Tiles(rg), target_image, reference_image_), rg)

(***************************************************************************)
(* Inputs: buffers and regions.                                            *)
(***************************************************************************)
\* Pixel values the buffers are filled with: opaque black, opaque white,
\* (50,50,50) with upper byte 0, (200,100,50) with upper byte 128.
Palette ==
    << [hi |-> 255, lo |-> 0],
       [hi |-> 255, lo |-> 16777215],
       [hi |-> 0,   lo |-> 50 * 65536 + 50 * 256 + 50],
       [hi |-> 128, lo |-> 200 * 65536 + 100 * 256 + 50] >>

\* The w x h buffer whose pixel (x, y) is Palette entry (a*x + b*y + c) mod 4.
PatternImage(w, h, a, b, c) ==
    [width |-> w, height |-> h,
     pixels |-> [p \in Coords(w, h) |->
                    Palette[((a * p[1] + b * p[2] + c) % Len(Palette)) + 1]]]

\* Uniform buffers, column stripes, row stripes and diagonals of every size.
Images ==
    {PatternImage(w, h, a, b, c) :
        w \in 1 .. MaxW, h \in 1 .. MaxH, a \in 0 .. 1, b \in 0 .. 1,
        c \in 0 .. Len(Palette) - 1}

\* Regions around and inside the buffers: in bounds, partly or wholly out of
\* bounds, and empty (x2 < x1 or y2 < y1).
Regions ==
    {<<x1, y1, x2, y2>> : x1 \in (0 - 1) .. MaxW, y1 \in (0 - 1) .. MaxH,
                          x2 \in (0 - 1) .. MaxW, y2 \in (0 - 1) .. MaxH}

\* Regions whose corners sit at or next to the edges of a full-size buffer:
\* inside, sticking out on any side, and empty ones.
EdgeRegions ==
    {<<x1, y1, x2, y2>> : x1 \in {0 - 1, 0, MaxW - 1}, y1 \in {0 - 1, 0, MaxH - 1},
                          x2 \in {0, MaxW - 1, MaxW}, y2 \in {0, MaxH - 1, MaxH}}

(***************************************************************************)
(* The statistics call on its own.                                         *)
(***************************************************************************)
InitStats ==
    /\ image \in Images
    /\ reference_image = NoImage
    /\ region = NoRegion
    /\ color_stats = NoStats
    /\ source_color_stats = NoStats
    /\ ret = NoStats
    /\ op = "idle"
    /\ before = NoImage
    /\ set_pixel_calls = <<>>
    /\ accum = NoAccum
    /\ tv_args = NoArgs
    /\ LogControllerInit
    /\ ImageAreaInit

\* stats = image_controller.calculate_region_rgb_color_stats(image, region)
CalculateStats(rg) ==
    /\ op = "idle"
    /\ region' = rg
    /\ ret' = calculate_region_rgb_color_stats(image, rg)
    /\ op' = "calculate"
    /\ before' = image
    /\ UNCHANGED <<image, reference_image, color_stats, source_color_stats,
                   set_pixel_calls, accum, tv_args, logvars, areavars>>

NextStats == op = "idle" /\ \E rg \in Regions : CalculateStats(rg)

SpecStats == InitStats /\ [][NextStats]_vars


(***************************************************************************)
(* The colour shift on its own.                                            *)
(***************************************************************************)
\* Buffers whose whole-buffer statistics serve as statistics arguments:
\* uniform (200,100,50), every deviation 0; white/grey columns, averages
\* 152.5; grey/orange columns, blue deviation 0; a diagonal of black, white
\* and grey, whose deviations are irrational.
SampleImages ==
    {PatternImage(2, 2, 0, 0, 3), PatternImage(2, 2, 1, 0, 1),
     PatternImage(2, 2, 1, 0, 2), PatternImage(2, 2, 1, 1, 0)}

SampleStats == {calculate_region_rgb_color_stats(img, <<0, 0, 1, 1>>) : img \in SampleImages}

\* Full-size buffers.
FullImages == {img \in Images : img.width = MaxW /\ img.height = MaxH}

InitApply ==
    /\ image \in FullImages
    /\ reference_image = NoImage
    /\ region = NoRegion
    /\ color_stats = NoStats
    /\ source_color_stats = NoStats
    /\ ret = NoStats
    /\ op = "idle"
    /\ before = NoImage
    /\ set_pixel_calls = <<>>
    /\ accum = NoAccum
    /\ tv_args = NoArgs
    /\ LogControllerInit
    /\ ImageAreaInit

\* updated_image = image_controller.apply_region_rgb_color_stats(
\*     image, region, color_stats, source_color_stats)
Applied(done) ==
    /\ image' = done.image
    /\ ret' = done.image
    /\ set_pixel_calls' = done.calls

ApplyStats(rg, cs, scs) ==
    /\ op = "idle"
    /\ region' = rg
    /\ color_stats' = cs
    /\ source_color_stats' = scs
    /\ Applied(apply_region_rgb_color_stats(image, rg, cs, scs))
    /\ op' = "apply"
    /\ before' = image
    /\ UNCHANGED <<reference_image, accum, tv_args, logvars, areavars>>

\* The statistics arguments: the region's own statistics (as the UI passes
\* them) or any of the sample statistics.
NextApply ==
    /\ op = "idle"
    /\ \E rg \in EdgeRegions :
          \E cs \in SampleStats \cup {calculate_region_rgb_color_stats(image, rg)},
             scs \in SampleStats :
              ApplyStats(rg, cs, scs)

SpecApply == InitApply /\ [][NextApply]_vars

(***************************************************************************)
(* transform_value on its own: the three copies are called on the same     *)
(* arguments.                                                              *)
(***************************************************************************)
\* The (average, deviation) pairs of the three channels of the statistics of
\* the sample buffers and of black/white columns.
ChannelStats ==
    UNION {{<<st.avg_r, st.r_sd>>, <<st.avg_g, st.g_sd>>, <<st.avg_b, st.b_sd>>} :
            st \in SampleStats \cup
                   {calculate_region_rgb_color_stats(PatternImage(2, 2, 1, 0, 0),
                                                     <<0, 0, 1, 1>>)}}

InitTransform ==
    /\ image = NoImage
    /\ reference_image = NoImage
    /\ region = NoRegion
    /\ color_stats = NoStats
    /\ source_color_stats = NoStats
    /\ ret = NoStats
    /\ op = "idle"
    /\ before = NoImage
    /\ set_pixel_calls = <<>>
    /\ accum = NoAccum
    /\ tv_args = NoArgs
    /\ LogControllerInit
    /\ ImageAreaInit

\* new_r = transform_value(r, color_stats.avg_r, color_stats.r_sd,
\*                         source_color_stats.avg_r, source_color_stats.r_sd)
TransformValue(value, curr, target) ==
    /\ op = "idle"
    /\ tv_args' = [value |-> value, curr_avg |-> curr[1], curr_sd |-> curr[2],
                   target_avg |-> target[1], target_sd |-> target[2]]
    /\ ret' = [apply |-> transform_value(RInt(value), curr[1], curr[2],
                                         target[1], target[2]),
               lighting |-> lighting_transform_value(RInt(value), curr[1], curr[2],
                                                     target[1], target[2]),
               lib |-> lib_transform_value(RInt(value), curr[1], curr[2],
                                           target[1], target[2])]
    /\ op' = "transform"
    /\ UNCHANGED <<image, reference_image, region, color_stats, source_color_stats,
                   before, set_pixel_calls, accum, logvars, areavars>>

NextTransform ==
    /\ op = "idle"
    /\ \E value \in 0 .. 255, curr \in ChannelStats, target \in ChannelStats :
          TransformValue(value, curr, target)

SpecTransform == InitTransform /\ [][NextTransform]_vars

(***************************************************************************)
(* The lighting transfer on its own.                                       *)
(***************************************************************************)
\* Target buffers: the full-size sample patterns, two buffers one tile step
\* plus two pixels wide (the narrowest a second tile starts in), and a 4 x 4
\* buffer that is uniformly (50,50,50).
TargetImages ==
    {PatternImage(MaxW, MaxH, 0, 0, 3), PatternImage(MaxW, MaxH, 1, 0, 1),
     PatternImage(MaxW, MaxH, 1, 1, 0),
     PatternImage(OVERLAP + 2, 2, 1, 0, 0), PatternImage(OVERLAP + 2, 2, 1, 1, 2),
     PatternImage(4, 4, 0, 0, 2)}

\* Reference buffers: as large as the target (columns of grey and orange,
\* rows of black and white, uniformly (200,100,50)), a single pixel (so
\* that a tile can miss the reference altogether), or the target itself.
ReferenceImages(target_image) ==
    {PatternImage(target_image.width, target_image.height, 1, 0, 2),
     PatternImage(target_image.width, target_image.height, 0, 1, 0),
     PatternImage(target_image.width, target_image.height, 0, 0, 3),
     PatternImage(1, 1, 0, 0, 3),
     target_image}

\* Regions of a transfer.  For a full-size buffer: those at its edges, two
\* whose width or height is negative, one that lies wholly outside it and
\* one so wide that its second tile lies wholly outside it.  For the other
\* buffers: the whole buffer, and the whole buffer less its first or its
\* last column.
TransferRegions(target_image) ==
    IF target_image.width = MaxW /\ target_image.height = MaxH
    THEN EdgeRegions \cup {<<MaxW, 0, 0, MaxH>>, <<0, MaxH, MaxW, 0>>,
                           <<0, MaxH, 0, 0>>,
                           <<MaxW, 0, MaxW + 1, 1>>, <<0, 0, OVERLAP + 1, 1>>}
    ELSE {<<0, 0, target_image.width - 1, target_image.height - 1>>,
          <<1, 0, target_image.width - 1, target_image.height - 1>>,
          <<0, 0, target_image.width - 2, target_image.height - 1>>}

InitLighting ==
    /\ image \in TargetImages
    /\ reference_image \in ReferenceImages(image)
    /\ region = NoRegion
    /\ color_stats = NoStats
    /\ source_color_stats = NoStats
    /\ ret = NoStats
    /\ op = "idle"
    /\ before = NoImage
    /\ set_pixel_calls = <<>>
    /\ accum = NoAccum
    /\ tv_args = NoArgs
    /\ LogControllerInit
    /\ ImageAreaInit

\* updated_image = image_controller.apply_region_lighting_transfer(
\*     image, source_image, source_region)
Transferred(done) ==
    /\ image' = done.target_image
    /\ ret' = done.result_image
    /\ set_pixel_calls' = done.calls
    /\ accum' = done.buffers
    /\ tv_args' = done.windows
    /\ op' = IF done.raised = "" THEN "transfer" ELSE done.raised

TransferLighting(rg) ==
    /\ op = "idle"
    /\ region' = rg
    /\ Transferred(apply_region_lighting_transfer(image, reference_image, rg))
    /\ before' = image
    /\ UNCHANGED <<reference_image, color_stats, source_color_stats, logvars, areavars>>

NextLighting ==
    /\ op = "idle"
    /\ \E rg \in TransferRegions(image) : TransferLighting(rg)

SpecLighting == InitLighting /\ [][NextLighting]_vars

(***************************************************************************)
(* Properties of calculate_region_rgb_color_stats (under SpecStats).       *)
(***************************************************************************)
\* The coordinates of the region that lie inside the buffer.
InRegion(img, rg) ==
    {p \in Coords(img.width, img.height) :
        /\ rg[1] <= p[1] /\ p[1] <= rg[3]
        /\ rg[2] <= p[2] /\ p[2] <= rg[4]}

RGBOf(pixel) == <<RedOf(pixel), GreenOf(pixel), BlueOf(pixel)>>

\* Sum of channel ch (1 = R, 2 = G, 3 = B) of img over the coordinates in S.
RECURSIVE ChannelSum(_, _, _)
ChannelSum(img, S, ch) ==
    IF S = {} THEN 0
    ELSE LET p == CHOOSE q \in S : TRUE
         IN  RGBOf(img.pixels[p])[ch] + ChannelSum(img, S \ {p}, ch)

AllFieldsZero(st) ==
    /\ st.avg_r = <<0, 1>> /\ st.avg_g = <<0, 1>>
    /\ st.avg_b = <<0, 1>> /\ st.avg_white = <<0, 1>>
    /\ st.r_sd.radicand = <<0, 1>> /\ st.g_sd.radicand = <<0, 1>>
    /\ st.b_sd.radicand = <<0, 1>> /\ st.white_sd.radicand = <<0, 1>>

\* C1: a region with no coordinate inside the buffer (wholly outside, or
\* empty because x2 < x1 or y2 < y1) gives pixel_count = 0 and every average
\* and standard deviation exactly 0; and any returned stats with
\* pixel_count = 0 has all other fields 0.
C1_EmptyRegionZeroStats ==
    op = "calculate" =>
        /\ InRegion(before, region) = {} =>
              ret.pixel_count = 0 /\ AllFieldsZero(ret)
        /\ ret.pixel_count = 0 => AllFieldsZero(ret)

\* A non-empty rectangle lying wholly outside the buffer was measured.
C1_Witness ==
    /\ op = "calculate"
    /\ region[1] <= region[3] /\ region[2] <= region[4]
    /\ region[1] >= before.width
    /\ ret.pixel_count = 0

\* C2: pixel_count is the number of coordinates of the inclusive region that
\* lie inside the buffer, and each channel average is the sum of the channel
\* over exactly those pixels divided by pixel_count.
C2_CountAndAverages ==
    op = "calculate" =>
        LET S == InRegion(before, region)
            n == Cardinality(S)
        IN  /\ ret.pixel_count = n
            /\ n > 0 =>
                  /\ ret.avg_r = Rat(ChannelSum(before, S, 1), n)
                  /\ ret.avg_g = Rat(ChannelSum(before, S, 2), n)
                  /\ ret.avg_b = Rat(ChannelSum(before, S, 3), n)

\* A region sticking out of the buffer on the left and at the bottom, with two
\* or more differing pixels inside, was measured.
C2_Witness ==
    /\ op = "calculate"
    /\ region[1] < 0 /\ region[4] >= before.height
    /\ Cardinality(InRegion(before, region)) >= 2
    /\ ret.pixel_count >= 2
    /\ ~SdIsZero(ret.r_sd)

IsC4Block(img, rg) ==
    /\ InRegion(img, rg) = {<<0, 0>>, <<1, 0>>, <<0, 1>>, <<1, 1>>}
    /\ RGBOf(img.pixels[<<0, 0>>]) = <<0, 0, 0>>
    /\ RGBOf(img.pixels[<<1, 0>>]) = <<255, 255, 255>>
    /\ RGBOf(img.pixels[<<0, 1>>]) = <<0, 0, 0>>
    /\ RGBOf(img.pixels[<<1, 1>>]) = <<255, 255, 255>>

\* sd = n / d for a standard deviation sd: sd is never negative, so this is
\* sd ** 2 = (n / d) ** 2.
SdEquals(sd, n, d) == sd.radicand = Rat(n * n, d * d)

\* C4: the standard deviations are population standard deviations: on the 2x2
\* block (0,0,0), (255,255,255), (0,0,0), (255,255,255) the stats are
\* pixel_count = 4, avg_r = avg_g = avg_b = 127.5, r_sd = g_sd = b_sd = 127.5.
C4_PopulationSdScenario ==
    (op = "calculate" /\ IsC4Block(before, region)) =>
        /\ ret.pixel_count = 4
        /\ ret.avg_r = <<255, 2>> /\ ret.avg_g = <<255, 2>> /\ ret.avg_b = <<255, 2>>
        /\ SdEquals(ret.r_sd, 255, 2)
        /\ SdEquals(ret.g_sd, 255, 2)
        /\ SdEquals(ret.b_sd, 255, 2)

\* The block of C4 was measured.
C4_Witness ==
    /\ op = "calculate"
    /\ IsC4Block(before, region)
    /\ ret.pixel_count = 4
    /\ SdEquals(ret.r_sd, 255, 2)


(***************************************************************************)
(* Properties of transform_value (under SpecTransform).                    *)
(***************************************************************************)
\* The real x is (value - curr_avg) * (target_sd / curr_sd) + target_avg:
\* x - target_avg has the sign of value - curr_avg (or is 0 when target_sd
\* is) and its square is (value - curr_avg)^2 * target_sd^2 / curr_sd^2.
IsRescaled(x, a) ==
    LET d == RSub(RInt(a.value), a.curr_avg)
        up == IF SdIsZero(a.target_sd) THEN 0 ELSE Sign(d[1])
    IN  /\ x.rat = a.target_avg
        /\ RealCmp(x, a.target_avg) = up
        /\ d[1] # 0 =>
              RMul(RSquare(RDiv(x.coef, d)), x.rad) =
                  RDiv(a.target_sd.radicand, a.curr_sd.radicand)

IsTransformValue(x, a) ==
    IF SdIsZero(a.curr_sd)
    THEN RealCmp(x, a.target_avg) = 0
    ELSE IsRescaled(x, a)

\* C5: transform_value returns target_avg whenever curr_sd == 0 (whatever the
\* value and target_sd) and otherwise
\* (value - curr_avg) * (target_sd / curr_sd) + target_avg; the copies in
\* lib apply, controller apply and the lighting transfer all do.
C5_TransformValue ==
    op = "transform" =>
        /\ IsTransformValue(ret.apply, tv_args)
        /\ IsTransformValue(ret.lighting, tv_args)
        /\ IsTransformValue(ret.lib, tv_args)

\* transform_value was called with curr_sd == 0, target_sd # 0 and a value
\* other than the averages.
C5_Witness ==
    /\ op = "transform"
    /\ SdIsZero(tv_args.curr_sd)
    /\ ~SdIsZero(tv_args.target_sd)
    /\ RInt(tv_args.value) # tv_args.curr_avg
    /\ RInt(tv_args.value) # tv_args.target_avg
    /\ ret.lighting = RealOf(tv_args.target_avg)

(***************************************************************************)
(* Properties of apply_region_rgb_color_stats (under SpecApply).           *)
(***************************************************************************)
\* C6 as stated: with color_stats = source_color_stats = S, for any S, every
\* pixel of the region keeps its R, G, B.
C6_IdempotentForAnyStats ==
    (op = "apply" /\ color_stats = source_color_stats) =>
        \A p \in InRegion(before, region) :
            RGBOf(image.pixels[p]) = RGBOf(before.pixels[p])

\* The channel ch (1 = R, 2 = G, 3 = B) of statistics st: <<average, deviation>>.
ChannelOf(st, ch) ==
    IF ch = 1 THEN <<st.avg_r, st.r_sd>>
    ELSE IF ch = 2 THEN <<st.avg_g, st.g_sd>>
    ELSE <<st.avg_b, st.b_sd>>

\* C6, amended: with color_stats = source_color_stats = S, a channel of an
\* in-bounds pixel of the region keeps its value if S's deviation of that
\* channel is not 0 or S's average of that channel is the pixel's value; so
\* every pixel keeps its R, G, B when S is the region's own statistics.
C6_IdempotentUnlessZeroVariance ==
    (op = "apply" /\ color_stats = source_color_stats) =>
        /\ \A p \in InRegion(before, region) : \A ch \in 1 .. 3 :
              (\/ ~SdIsZero(ChannelOf(color_stats, ch)[2])
               \/ ChannelOf(color_stats, ch)[1] = RInt(RGBOf(before.pixels[p])[ch]))
              => RGBOf(image.pixels[p])[ch] = RGBOf(before.pixels[p])[ch]
        /\ color_stats = calculate_region_rgb_color_stats(before, region) =>
              \A p \in InRegion(before, region) :
                  RGBOf(image.pixels[p]) = RGBOf(before.pixels[p])

\* The shift was applied with S = S, S not the region's own statistics and
\* no deviation of S zero, to a region with pixels in bounds.
C6_Witness ==
    /\ op = "apply"
    /\ color_stats = source_color_stats
    /\ color_stats # calculate_region_rgb_color_stats(before, region)
    /\ \A ch \in 1 .. 3 : ~SdIsZero(ChannelOf(color_stats, ch)[2])
    /\ Cardinality(InRegion(before, region)) >= 2
    /\ \A p \in InRegion(before, region) :
          RGBOf(image.pixels[p]) = RGBOf(before.pixels[p])

\* The integer in 0..255 nearest to the rational q clamped to [0, 255], the
\* even one of two equally near.
NearestClamped(q) ==
    CHOOSE k \in 0 .. 255 :
        \/ k = 0 /\ 2 * q[1] <= q[2]
        \/ k = 255 /\ 2 * q[1] >= 509 * q[2]
        \/ 2 * Abs(q[1] - k * q[2]) < q[2]
        \/ 2 * Abs(q[1] - k * q[2]) = q[2] /\ k % 2 = 0

\* C7: if the current deviation of a channel is 0, every in-bounds pixel of
\* the region ends with that channel equal to the target average of the
\* channel, rounded and clamped to [0, 255], whatever its original value and
\* the target deviation; each of R, G, B on its own.
C7_ZeroVarianceRule ==
    op = "apply" =>
        \A ch \in 1 .. 3 :
            SdIsZero(ChannelOf(color_stats, ch)[2]) =>
                \A p \in InRegion(before, region) :
                    RGBOf(image.pixels[p])[ch] =
                        NearestClamped(ChannelOf(source_color_stats, ch)[1])

\* The shift was applied with current blue deviation 0 and current red
\* deviation not 0, a target average ending in .5 and a target deviation not
\* 0, and changed the blue of a pixel.
C7_Witness ==
    /\ op = "apply"
    /\ SdIsZero(color_stats.b_sd)
    /\ ~SdIsZero(color_stats.r_sd)
    /\ source_color_stats.avg_b = <<305, 2>>
    /\ ~SdIsZero(source_color_stats.b_sd)
    /\ \E p \in InRegion(before, region) :
          /\ BlueOf(before.pixels[p]) = 0
          /\ BlueOf(image.pixels[p]) = 152

\* C8: the shift makes exactly one setPixel call for every in-bounds pixel of
\* the region and none elsewhere; each channel value written is an integer in
\* [0, 255] and is what the pixel then holds; and a channel's new value
\* depends on that channel's old value alone.
C8_EveryPixelOnceInRange ==
    op = "apply" =>
        LET calls == set_pixel_calls
            at(i) == <<calls[i].x, calls[i].y>>
        IN  /\ Len(calls) = Cardinality(InRegion(before, region))
            /\ {at(i) : i \in 1 .. Len(calls)} = InRegion(before, region)
            /\ \A i \in 1 .. Len(calls) :
                  /\ calls[i].r \in 0 .. 255
                  /\ calls[i].g \in 0 .. 255
                  /\ calls[i].b \in 0 .. 255
                  /\ image.pixels[at(i)].lo =
                        calls[i].r * 65536 + calls[i].g * 256 + calls[i].b
            /\ \A i, j \in 1 .. Len(calls) :
                  /\ RedOf(before.pixels[at(i)]) = RedOf(before.pixels[at(j)])
                        => calls[i].r = calls[j].r
                  /\ GreenOf(before.pixels[at(i)]) = GreenOf(before.pixels[at(j)])
                        => calls[i].g = calls[j].g
                  /\ BlueOf(before.pixels[at(i)]) = BlueOf(before.pixels[at(j)])
                        => calls[i].b = calls[j].b

\* The shift was applied with statistics that send green 255 above 255 and
\* green 0 below 0: both were clamped.
C8_Witness ==
    /\ op = "apply"
    /\ \E i, j \in 1 .. Len(set_pixel_calls) :
          LET ci == set_pixel_calls[i]
              cj == set_pixel_calls[j]
              gi == GreenOf(before.pixels[<<ci.x, ci.y>>])
              gj == GreenOf(before.pixels[<<cj.x, cj.y>>])
          IN  /\ ci.g = 255 /\ cj.g = 0
              /\ RoundAtLeast(transform_value(RInt(gi), color_stats.avg_g,
                                  color_stats.g_sd, source_color_stats.avg_g,
                                  source_color_stats.g_sd), 256)
              /\ ~RoundAtLeast(transform_value(RInt(gj), color_stats.avg_g,
                                  color_stats.g_sd, source_color_stats.avg_g,
                                  source_color_stats.g_sd), 0)

(***************************************************************************)
(* Properties of apply_region_lighting_transfer (under SpecLighting).      *)
(***************************************************************************)
\* The setPixel calls of the last call that address pixel p.
CallsAt(p) == {i \in 1 .. Len(set_pixel_calls) :
                  <<set_pixel_calls[i].x, set_pixel_calls[i].y>> = p}

UnclampedAt(x, y, tile) ==
    LET target_stats == calculate_region_rgb_color_stats(before, tile)
        ref_stats == calculate_region_rgb_color_stats(reference_image, tile)
        pixel == PixelAt(before, x, y)
    IN  {Round(lighting_transform_value(RInt(RedOf(pixel)), target_stats.avg_r,
                   target_stats.r_sd, ref_stats.avg_r, ref_stats.r_sd)),
         Round(lighting_transform_value(RInt(GreenOf(pixel)), target_stats.avg_g,
                   target_stats.g_sd, ref_stats.avg_g, ref_stats.g_sd)),
         Round(lighting_transform_value(RInt(BlueOf(pixel)), target_stats.avg_b,
                   target_stats.b_sd, ref_stats.avg_b, ref_stats.b_sd))}

\* C10: every channel value apply_region_lighting_transfer writes is an
\* integer in [0, 255], whatever the target, the reference and the region.
\* The clamp is applied to each tile's transformed value (what a pixel
\* accumulates in a colour channel lies between 0 and 255 times its
\* accumulated weight) and again to the normalised final value (each
\* setPixel call made, one per buffer entry of positive weight, writes
\* channels in 0..255).
C10_WrittenChannelsInRange ==
    op = "transfer" =>
        /\ \A i \in 1 .. Len(set_pixel_calls) :
              /\ set_pixel_calls[i].r \in 0 .. 255
              /\ set_pixel_calls[i].g \in 0 .. 255
              /\ set_pixel_calls[i].b \in 0 .. 255
        /\ \A p \in DOMAIN accum :
              LET top == RMul(RInt(255), accum[p].weight)
              IN  /\ RCmp(accum[p].weight, RInt(0)) >= 0
                  /\ \A c \in {accum[p].r, accum[p].g, accum[p].b} :
                        RCmp(c, RInt(0)) >= 0 /\ RCmp(c, top) <= 0
                  /\ (RCmp(accum[p].weight, RInt(0)) > 0) <=>
                        (CallsAt(<<p[1] + region[1], p[2] + region[2]>>) # {})

\* A transfer over two tiles in which a pixel's transformed value left
\* [0, 255] before the clamp, in a tile that gave the pixel a positive
\* weight, and the pixel was written.
C10_Witness ==
    /\ op = "transfer"
    /\ Len(Tiles(region)) >= 2
    /\ \E i \in 1 .. Len(Tiles(region)) :
          LET tile == Tiles(region)[i]
          IN  \E x \in tile[1] .. tile[3], y \in tile[2] .. tile[4] :
                 /\ RCmp(TileWeight(x, y, tile), RInt(0)) > 0
                 /\ CallsAt(<<x, y>>) # {}
                 /\ <<x, y>> \in DOMAIN ret.pixels
                 /\ \E v \in UnclampedAt(x, y, tile) : v < 0 \/ v > 255

\* The region-wide colour shift of the target towards the reference:
\* apply_region_rgb_color_stats(target, region, stats(target, region),
\* stats(reference, region)).
GlobalShift(target_image, reference_image_, rg) ==
    apply_region_rgb_color_stats(target_image, rg,
                                 calculate_region_rgb_color_stats(target_image, rg),
                                 calculate_region_rgb_color_stats(reference_image_, rg)).image

\* The last transfer had exactly one window, and the window is the region.
SingleWindow == Len(tv_args) = 1 /\ tv_args[1].tile = region

\* C11 as stated: when the window is at least as large as the region and
\* there is exactly one window placement, the image the lighting transfer
\* returns equals, at every pixel of the region, the image that
\* apply_region_rgb_color_stats gives with the region's target statistics as
\* current and the region's reference statistics as target statistics.
C11_SingleWindowEqualsShift ==
    (op = "transfer" /\ SingleWindow) =>
        \A p \in InRegion(before, region) :
            ret.pixels[p] = GlobalShift(before, reference_image, region).pixels[p]

\* C12: self-transfer.  When the reference is the target itself, the image
\* apply_region_lighting_transfer returns has, at every in-bounds pixel of
\* the region, the R, G and B values the target has there.
C12_SelfTransferKeepsPixels ==
    (op = "transfer" /\ reference_image = before) =>
        \A p \in InRegion(before, region) :
            RGBOf(ret.pixels[p]) = RGBOf(before.pixels[p])

\* A self-transfer over two windows wrote a pixel, and a window that gave it
\* weight had a non-zero deviation in its statistics.
C12_Witness ==
    /\ op = "transfer"
    /\ reference_image = before
    /\ Len(tv_args) >= 2
    /\ \E i \in 1 .. Len(tv_args) :
          LET tile == tv_args[i].tile
          IN  /\ ~SdIsZero(tv_args[i].target_stats.r_sd)
              /\ \E p \in InRegion(before, region) :
                    /\ p[1] \in tile[1] .. tile[3] /\ p[2] \in tile[2] .. tile[4]
                    /\ Covered([weight |-> TileWeight(p[1], p[2], tile)])
                    /\ CallsAt(p) # {}

\* img is w x h and every pixel of it has the channels rgb.
IsUniform(img, w, h, rgb) ==
    /\ img.width = w /\ img.height = h
    /\ \A p \in DOMAIN img.pixels : RGBOf(img.pixels[p]) = rgb

\* C13 as stated: with a 4 x 4 region, the reference uniformly (200,100,50)
\* and the target uniformly (50,50,50), the image the lighting transfer
\* returns is (200,100,50) at all 16 pixels of the region.
C13_UniformScenario ==
    (/\ op = "transfer"
     /\ region = <<0, 0, 3, 3>>
     /\ IsUniform(before, 4, 4, <<50, 50, 50>>)
     /\ IsUniform(reference_image, 4, 4, <<200, 100, 50>>)) =>
        \A p \in InRegion(before, region) : RGBOf(ret.pixels[p]) = <<200, 100, 50>>

\* The in-bounds pixels of the region whose accumulated weight is 0 after
\* the last transfer.
Uncovered ==
    {p \in InRegion(before, region) :
        RIsZero(accum[<<p[1] - region[1], p[2] - region[2]>>].weight)}

C15_TransferNeverRaises == op \in {"idle", "transfer"}

\* The windows of the last transfer that give pixel p a positive weight.
WindowsOver(p) ==
    {i \in 1 .. Len(tv_args) :
        /\ p[1] \in tv_args[i].tile[1] .. tv_args[i].tile[3]
        /\ p[2] \in tv_args[i].tile[2] .. tv_args[i].tile[4]
        /\ ~RIsZero(TileWeight(p[1], p[2], tv_args[i].tile))}

\* The channels window w gives a pixel whose channels in the image read are
\* rgb: transformed from the window's target statistics to its reference
\* statistics, rounded and clamped.
WindowValue(rgb, w) ==
    <<Clamp(Round(lighting_transform_value(RInt(rgb[1]), w.target_stats.avg_r,
                      w.target_stats.r_sd, w.ref_stats.avg_r, w.ref_stats.r_sd))),
      Clamp(Round(lighting_transform_value(RInt(rgb[2]), w.target_stats.avg_g,
                      w.target_stats.g_sd, w.ref_stats.avg_g, w.ref_stats.g_sd))),
      Clamp(Round(lighting_transform_value(RInt(rgb[3]), w.target_stats.avg_b,
                      w.target_stats.b_sd, w.ref_stats.avg_b, w.ref_stats.b_sd)))>>

WeightIn(w, x, y) ==
    IF x \in w.tile[1] .. w.tile[3] /\ y \in w.tile[2] .. w.tile[4]
    THEN TileWeight(x, y, w.tile)
    ELSE RInt(0)

\* The windows of the last transfer whose target statistics have
\* pixel_count = 0, and the others.
EmptyWindows == {i \in 1 .. Len(tv_args) : tv_args[i].target_stats.pixel_count = 0}

\* C18 as stated: a window whose clipped target statistics report
\* pixel_count == 0 is skipped: it adds nothing to the weight buffer or the
\* colour buffer at any coordinate.  So each entry of the weight buffer is
\* the sum of the weights of the other windows.
C18_EmptyWindowsAddNothing ==
    op = "transfer" =>
        \A p \in DOMAIN accum :
            accum[p].weight =
                SumRats([i \in 1 .. Len(tv_args) |->
                            IF i \in EmptyWindows THEN RInt(0)
                            ELSE WeightIn(tv_args[i], p[1] + region[1], p[2] + region[2])])

\* C18 as amended: a window whose clipped target statistics report
\* pixel_count == 0 is not skipped; it adds its weights to the weight
\* buffer like any other window (each entry is the sum of the weights of
\* all the windows), and to the colour buffer its weight times the rounded,
\* clamped reference averages of the window.  No pixel of such a window
\* lies inside the target, so nothing it adds reaches the result.
C18_EmptyWindowsAddWeights ==
    op = "transfer" =>
        /\ \A p \in DOMAIN accum :
              accum[p].weight =
                  SumRats([i \in 1 .. Len(tv_args) |->
                              WeightIn(tv_args[i], p[1] + region[1], p[2] + region[2])])
        /\ \A i \in EmptyWindows :
              /\ \A p \in DOMAIN before.pixels : RIsZero(WeightIn(tv_args[i], p[1], p[2]))
              /\ \A p \in DOMAIN accum :
                    WindowsOver(<<p[1] + region[1], p[2] + region[2]>>) = {i} =>
                        LET w == accum[p].weight
                            st == tv_args[i].ref_stats
                        IN  /\ accum[p].r = RMul(w, RInt(Clamp(Round(RealOf(st.avg_r)))))
                            /\ accum[p].g = RMul(w, RInt(Clamp(Round(RealOf(st.avg_g)))))
                            /\ accum[p].b = RMul(w, RInt(Clamp(Round(RealOf(st.avg_b)))))

\* A transfer had a window with pixel_count 0 in its target statistics that
\* gave a pixel a positive weight, and another window that was not empty.
C18_Witness ==
    /\ op = "transfer"
    /\ \E i \in EmptyWindows :
          \E p \in DOMAIN accum :
              i \in WindowsOver(<<p[1] + region[1], p[2] + region[2]>>)
    /\ \E j \in 1 .. Len(tv_args) : j \notin EmptyWindows

\* C19 as stated: within any clipped window the weight is non-negative and
\* symmetric around the window's centre: the pixel at offset i from the
\* window's first column (row) and the pixel at offset i from its last
\* column (row) get the same weight.
C19_WeightSymmetric ==
    op = "transfer" =>
        \A i \in 1 .. Len(tv_args) :
            LET tile == tv_args[i].tile
            IN  \A x \in tile[1] .. tile[3], y \in tile[2] .. tile[4] :
                    /\ RCmp(TileWeight(x, y, tile), RInt(0)) >= 0
                    /\ TileWeight(x, y, tile) = TileWeight(tile[1] + tile[3] - x, y, tile)
                    /\ TileWeight(x, y, tile) = TileWeight(x, tile[2] + tile[4] - y, tile)

(***************************************************************************)
(* The white statistic (under SpecApply).                                  *)
(***************************************************************************)
\* st with other values for avg_white, white_sd and pixel_count.
WithWhite(st, avg_white, white_sd, pixel_count) ==
    [st EXCEPT !.avg_white = avg_white, !.white_sd = white_sd,
               !.pixel_count = pixel_count]

\* done, the outcome of another call, is the outcome of the last call.
SameAsApplied(done) == done.image = image /\ done.calls = set_pixel_calls

\* C20: the white statistic is never used by the transform.  Statistics that
\* agree with the ones the shift was applied with on avg_r, avg_g, avg_b,
\* r_sd, g_sd and b_sd, and differ from them in avg_white, white_sd or
\* pixel_count, give the same buffer and the same setPixel calls.
C20_WhiteUnused ==
    op = "apply" =>
        LET dark == <<ZeroAvg, ZeroSd, 0>>
            light == <<RInt(255), SqrtOf(RInt(400)), 7>>
            Again(a, b) ==
                apply_region_rgb_color_stats(before, region,
                    WithWhite(color_stats, a[1], a[2], a[3]),
                    WithWhite(source_color_stats, b[1], b[2], b[3]))
        IN  SameAsApplied(Again(dark, light)) /\ SameAsApplied(Again(light, dark))

\* The shift was applied with statistics whose white averages and white
\* deviations are neither equal to each other nor to the ones tried in their
\* place, and it changed the buffer.
C20_Witness ==
    /\ op = "apply"
    /\ image # before
    /\ color_stats.avg_white # source_color_stats.avg_white
    /\ ~SdIsZero(color_stats.white_sd)
    /\ ~SdIsZero(source_color_stats.white_sd)
    /\ color_stats.avg_white \notin {ZeroAvg, RInt(255)}
    /\ color_stats.pixel_count \notin {0, 7}


(***************************************************************************)
(* LogController (src/src/controllers/log_controller.py).                  *)
(* A listener is a callable; the model names the callables 1..MaxListeners *)
(* and records each call a broadcast makes.  The listeners of the          *)
(* repository (RightColumn.log_message, RightColumn.update_similarity_     *)
(* result) write to a widget: they return normally and do not call back    *)
(* into the controller, and the model's listeners do the same.             *)
(***************************************************************************)
MaxListeners == 3

Listeners == 1 .. MaxListeners

Messages == {"System initialized and ready.", ">>> Starting Face Comparison"}

\* similarity scores, as rationals
Scores == {Rat(2, 5), Rat(9, 10)}

\* Python: x in list
Contains(list, x) == \E i \in DOMAIN list : list[i] = x

\* Python: list.remove(x), which removes the first occurrence
ListRemove(list, x) ==
    LET first == CHOOSE i \in DOMAIN list :
                     list[i] = x /\ \A j \in 1 .. i - 1 : list[j] # x
    IN  [j \in 1 .. Len(list) - 1 |-> IF j < first THEN list[j] ELSE list[j + 1]]

\* The controller object: its two lists.
LogControllerSelf ==
    [_listeners |-> _listeners, _similarity_listeners |-> _similarity_listeners]

add_listener_unchecked(self, listener) ==
    [self EXCEPT !._listeners = Append(self._listeners, listener)]

add_listener(self, listener) ==
    IF ~Contains(self._listeners, listener)
    THEN [self EXCEPT !._listeners = Append(self._listeners, listener)]
    ELSE self

remove_listener(self, listener) ==
    IF Contains(self._listeners, listener)
    THEN [self EXCEPT !._listeners = ListRemove(self._listeners, listener)]
    ELSE self

add_similarity_listener(self, listener) ==
    IF ~Contains(self._similarity_listeners, listener)
    THEN [self EXCEPT !._similarity_listeners =
                          Append(self._similarity_listeners, listener)]
    ELSE self

remove_similarity_listener(self, listener) ==
    IF Contains(self._similarity_listeners, listener)
    THEN [self EXCEPT !._similarity_listeners =
                          ListRemove(self._similarity_listeners, listener)]
    ELSE self

\* for listener in self._listeners: listener(message) -- the calls made
log_message_to_all(self, message) ==
    [i \in 1 .. Len(self._listeners) + Len(self._similarity_listeners) |->
        [listener |-> (self._listeners \o self._similarity_listeners)[i],
         message |-> message]]

log_message(self, message) ==
    [i \in 1 .. Len(self._listeners) |->
        [listener |-> self._listeners[i], message |-> message]]

update_similarity_score(self, score) ==
    [i \in 1 .. Len(self._similarity_listeners) |->
        [listener |-> self._similarity_listeners[i], score |-> score]]

InitLog ==
    /\ image = NoImage
    /\ reference_image = NoImage
    /\ region = NoRegion
    /\ color_stats = NoStats
    /\ source_color_stats = NoStats
    /\ ret = NoStats
    /\ op = "idle"
    /\ before = NoImage
    /\ set_pixel_calls = <<>>
    /\ accum = NoAccum
    /\ tv_args = NoArgs
    /\ LogControllerInit
    /\ ImageAreaInit

\* before keeps the controller as it was when the call was made.
LogUnchanged ==
    /\ before' = LogControllerSelf
    /\ UNCHANGED <<image, reference_image, region, color_stats, source_color_stats,
                   ret, set_pixel_calls, accum, tv_args, areavars>>

\* A call that changes the lists and calls no listener.
Registered(self, name, listener) ==
    /\ _listeners' = self._listeners
    /\ _similarity_listeners' = self._similarity_listeners
    /\ listener_calls' = <<>>
    /\ log_args' = [listener |-> listener]
    /\ op' = name
    /\ LogUnchanged

\* A call that calls listeners and leaves the lists alone.
Broadcast(calls, name, args) ==
    /\ listener_calls' = calls
    /\ log_args' = args
    /\ op' = name
    /\ UNCHANGED <<_listeners, _similarity_listeners>>
    /\ LogUnchanged

AddListener(listener) ==
    Registered(add_listener(LogControllerSelf, listener), "add_listener", listener)

RemoveListener(listener) ==
    Registered(remove_listener(LogControllerSelf, listener), "remove_listener", listener)

AddSimilarityListener(listener) ==
    Registered(add_similarity_listener(LogControllerSelf, listener),
               "add_similarity_listener", listener)

RemoveSimilarityListener(listener) ==
    Registered(remove_similarity_listener(LogControllerSelf, listener),
               "remove_similarity_listener", listener)

LogMessage(message) ==
    Broadcast(log_message(LogControllerSelf, message), "log_message",
              [message |-> message])

UpdateSimilarityScore(score) ==
    Broadcast(update_similarity_score(LogControllerSelf, score),
              "update_similarity_score", [score |-> score])

NextLog ==
    \/ \E listener \in Listeners : AddListener(listener)
    \/ \E listener \in Listeners : RemoveListener(listener)
    \/ \E listener \in Listeners : AddSimilarityListener(listener)
    \/ \E listener \in Listeners : RemoveSimilarityListener(listener)
    \/ \E message \in Messages : LogMessage(message)
    \/ \E score \in Scores : UpdateSimilarityScore(score)

SpecLog == InitLog /\ [][NextLog]_vars

\* How often a broadcast called a listener, and where a listener stands in a list.
CallsOf(listener) ==
    Cardinality({i \in DOMAIN listener_calls : listener_calls[i].listener = listener})

PositionIn(list, listener) == CHOOSE i \in DOMAIN list : list[i] = listener

InListOrder(list) ==
    \A i, j \in DOMAIN listener_calls :
        i < j => PositionIn(list, listener_calls[i].listener)
                     < PositionIn(list, listener_calls[j].listener)

\* The listeners registered before and after a step keep their relative order,
\* and a listener the step registers stands after all of them.
RegistrationOrderKept(list, list_) ==
    \A a, b \in Listeners :
        (Contains(list_, a) /\ Contains(list_, b) /\ a # b /\ Contains(list, a)) =>
            IF Contains(list, b)
            THEN (PositionIn(list, a) < PositionIn(list, b))
                     <=> (PositionIn(list_, a) < PositionIn(list_, b))
            ELSE PositionIn(list_, a) < PositionIn(list_, b)

C21_CallsOfBroadcast ==
    /\ op = "log_message" =>
          /\ \A l \in Listeners : CallsOf(l) = IF Contains(_listeners, l) THEN 1 ELSE 0
          /\ \A i \in DOMAIN listener_calls :
                listener_calls[i] = [listener |-> listener_calls[i].listener,
                                     message |-> log_args.message]
          /\ InListOrder(_listeners)
    /\ op = "update_similarity_score" =>
          /\ \A l \in Listeners :
                CallsOf(l) = IF Contains(_similarity_listeners, l) THEN 1 ELSE 0
          /\ \A i \in DOMAIN listener_calls :
                listener_calls[i] = [listener |-> listener_calls[i].listener,
                                     score |-> log_args.score]
          /\ InListOrder(_similarity_listeners)

\* C21: log_message(m) calls every message listener registered at the time of
\* the call exactly once with m, in registration order, and no listener that is
\* registered for similarity only; update_similarity_score(s) does the same
\* with the similarity listeners.  The lists are in registration order: a call
\* never reorders the registered listeners and registers a new one at the end.
C21_BroadcastCallsRegisteredOnce ==
    /\ C21_CallsOfBroadcast
    /\ op # "idle" =>
          /\ RegistrationOrderKept(before._listeners, _listeners)
          /\ RegistrationOrderKept(before._similarity_listeners, _similarity_listeners)

\* A message broadcast to two listeners registered in the order 2, 1 while
\* listener 3 is registered for similarity only.
C21_Witness ==
    /\ op = "log_message"
    /\ _listeners = <<2, 1>>
    /\ _similarity_listeners = <<3>>
    /\ Len(listener_calls) = 2


NoDuplicates(list) == \A i, j \in DOMAIN list : list[i] = list[j] => i = j

\* The last call left both lists as they were.
ListsUnchanged ==
    /\ _listeners = before._listeners
    /\ _similarity_listeners = before._similarity_listeners

\* Every listener the last broadcast called stands in the list.
CalledFrom(list) ==
    \A i \in DOMAIN listener_calls : Contains(list, listener_calls[i].listener)

\* A listener enters a list only by the add call of that list for that listener.
EntersOnlyBy(list_before, list, name) ==
    \A l \in Listeners :
        (Contains(list, l) /\ ~Contains(list_before, l)) =>
            (op = name /\ log_args.listener = l)

\* C30: neither listener list ever holds a duplicate; adding a registered
\* listener and removing an unregistered one leave both lists unchanged; a
\* removed listener is in the list no more, comes back only by the add call
\* for it, and a broadcast calls only listeners that are in the list, so a
\* removed listener is not called until it is added again.
C30_NoDuplicateListeners ==
    /\ NoDuplicates(_listeners)
    /\ NoDuplicates(_similarity_listeners)
    /\ (op = "add_listener" /\ Contains(before._listeners, log_args.listener))
          => ListsUnchanged
    /\ (op = "remove_listener" /\ ~Contains(before._listeners, log_args.listener))
          => ListsUnchanged
    /\ (op = "add_similarity_listener"
            /\ Contains(before._similarity_listeners, log_args.listener))
          => ListsUnchanged
    /\ (op = "remove_similarity_listener"
            /\ ~Contains(before._similarity_listeners, log_args.listener))
          => ListsUnchanged
    /\ op = "remove_listener" => ~Contains(_listeners, log_args.listener)
    /\ op = "remove_similarity_listener"
          => ~Contains(_similarity_listeners, log_args.listener)
    /\ op # "idle" =>
          /\ EntersOnlyBy(before._listeners, _listeners, "add_listener")
          /\ EntersOnlyBy(before._similarity_listeners, _similarity_listeners,
                          "add_similarity_listener")
    /\ op = "log_message" => CalledFrom(_listeners)
    /\ op = "update_similarity_score" => CalledFrom(_similarity_listeners)

\* Listener 2 removed from between two others.
C30_Witness ==
    /\ op = "remove_listener"
    /\ log_args.listener = 2
    /\ before._listeners = <<1, 2, 3>>
    /\ _listeners = <<1, 3>>


\* The buffer entries of the region's first row and first column.
FirstRowOrColumn == {c \in DOMAIN accum : c[1] = 0 \/ c[2] = 0}

\* The windows of the transfer that contain pixel p.
WindowsContaining(p) ==
    {i \in 1 .. Len(tv_args) :
        /\ p[1] \in tv_args[i].tile[1] .. tv_args[i].tile[3]
        /\ p[2] \in tv_args[i].tile[2] .. tv_args[i].tile[4]}

FirstEdgeUnweighted(c) ==
    LET p == <<c[1] + region[1], c[2] + region[2]>>
    IN  /\ RIsZero(accum[c].weight)
        /\ \A i \in WindowsContaining(p) :
              NormDist(p[1], p[2], tv_args[i].tile) = RInt(1)
        /\ p \in DOMAIN before.pixels =>
              (CallsAt(p) = {} /\ ret.pixels[p] = before.pixels[p])

SingleRowOrColumn == region[1] = region[3] \/ region[2] = region[4]

\* C23 as stated: when the region is a single column or a single row
\* (x1 == x2 or y1 == y2), the transfer generates no tile at all and returns
\* an image equal pixel for pixel to the target.
C23_SingleLineReturnsTarget ==
    (op # "idle" /\ SingleRowOrColumn) =>
        /\ op = "transfer"
        /\ tv_args = <<>>
        /\ set_pixel_calls = <<>>
        /\ ret = before

\* The part of C23 that the code keeps: a transfer over such a region that
\* returns has generated no tile and returns an image equal to the target.
C23_ReturnedSingleLineIsTarget ==
    (op = "transfer" /\ SingleRowOrColumn) =>
        /\ tv_args = <<>>
        /\ set_pixel_calls = <<>>
        /\ ret = before


(***************************************************************************)
(* Either of the two calls that write pixels, on the same images: the      *)
(* colour shift with the region's own statistics as current statistics (as *)
(* ImageArea passes them) or the lighting transfer.                        *)
(***************************************************************************)
NextFrame ==
    /\ op = "idle"
    /\ \E rg \in TransferRegions(image) :
          \/ TransferLighting(rg)
          \/ \E scs \in SampleStats :
                ApplyStats(rg, calculate_region_rgb_color_stats(image, rg), scs)

SpecFrame == InitLighting /\ [][NextFrame]_vars

\* The pixels of the image outside the rectangle of the call's region.
OutsideRegion == DOMAIN before.pixels \ InRegion(before, region)

C24_OutsideRegionKept ==
    op \in {"apply", "transfer"} =>
        /\ ret.width = before.width /\ ret.height = before.height
        /\ \A p \in OutsideRegion :
              ret.pixels[p] = before.pixels[p] /\ image.pixels[p] = before.pixels[p]

\* C24: apply_region_rgb_color_stats and apply_region_lighting_transfer
\* change no pixel outside the region rectangle [x1..x2] x [y1..y2], neither
\* in the image they return nor in the image they were given, and no step
\* changes a pixel of the reference image.
C24_Frame ==
    /\ []C24_OutsideRegionKept
    /\ [][reference_image' = reference_image]_vars

\* A transfer that wrote pixels of an image that has pixels outside the
\* region, with a reference other than the target.
C24_Witness ==
    /\ op = "transfer"
    /\ set_pixel_calls # <<>>
    /\ OutsideRegion # {}
    /\ reference_image # before


\* The clamped transformed values that the windows of positive weight over
\* buffer entry c contributed in channel k (1 red, 2 green, 3 blue).
Contributed(c, k) ==
    LET p == <<c[1] + region[1], c[2] + region[2]>>
    IN  {WindowValue(RGBOf(PixelAt(before, p[1], p[2])), tv_args[i])[k] :
            i \in WindowsOver(p)}

\* The normalised value of channel k of entry c, rounded, before the clamp.
Normalised(c, k) ==
    RoundRat(RDiv(<<accum[c].r, accum[c].g, accum[c].b>>[k], accum[c].weight))

Weighted == {c \in DOMAIN accum : RCmp(accum[c].weight, RInt(0)) > 0}

\* v lies between the least and the greatest of vals and within [0, 255].
Between(vals, v) ==
    /\ vals # {}
    /\ \E lo \in vals : lo <= v
    /\ \E hi \in vals : v <= hi
    /\ v \in 0 .. 255

\* C25: in the normalisation pass, for every buffer entry with accumulated
\* weight > 0 the final value of each channel lies between the minimum and
\* the maximum of the clamped transformed values that the windows of
\* positive weight contributed to it, hence within [0, 255] before the final
\* clamp; it is the value written where the entry is a pixel of the image.
C25_FinalValueIsConvexCombination ==
    op = "transfer" =>
        \A c \in Weighted, k \in 1 .. 3 :
            /\ Between(Contributed(c, k), Normalised(c, k))
            /\ \A i \in CallsAt(<<c[1] + region[1], c[2] + region[2]>>) :
                  <<set_pixel_calls[i].r, set_pixel_calls[i].g,
                    set_pixel_calls[i].b>>[k] = Normalised(c, k)

\* A pixel that two windows gave positive weight and different values, whose
\* final value lies strictly between the two.
C25_Witness ==
    /\ op = "transfer"
    /\ \E c \in Weighted, k \in 1 .. 3 :
          /\ Cardinality(WindowsOver(<<c[1] + region[1], c[2] + region[2]>>)) = 2
          /\ \E lo, hi \in Contributed(c, k) :
                lo < Normalised(c, k) /\ Normalised(c, k) < hi


\* All in-bounds pixels of the call's region have the same value in the
\* channel that Of reads.
SameIn(Of(_)) ==
    \A p, q \in InRegion(image, region) : Of(image.pixels[p]) = Of(image.pixels[q])

InByteRange(avg) == RCmp(avg, RInt(0)) >= 0 /\ RCmp(avg, RInt(255)) <= 0

\* C26: for statistics with pixel_count >= 1, the standard deviation of a
\* channel (R, G, B) is 0 if and only if all in-bounds pixels of the region
\* have the same value in that channel; every standard deviation (that of
\* white too) is >= 0, being the root of a radicand >= 0, and every average
\* lies in [0, 255].
C26_ZeroSdIffUniformChannel ==
    (op = "calculate" /\ ret.pixel_count >= 1) =>
        /\ SdIsZero(ret.r_sd) <=> SameIn(RedOf)
        /\ SdIsZero(ret.g_sd) <=> SameIn(GreenOf)
        /\ SdIsZero(ret.b_sd) <=> SameIn(BlueOf)
        /\ \A sd \in {ret.r_sd, ret.g_sd, ret.b_sd, ret.white_sd} :
              RCmp(sd.radicand, RInt(0)) >= 0
        /\ \A avg \in {ret.avg_r, ret.avg_g, ret.avg_b, ret.avg_white} :
              InByteRange(avg)

\* Statistics over several pixels that agree in blue and differ in red.
C26_Witness ==
    /\ op = "calculate"
    /\ ret.pixel_count >= 2
    /\ SdIsZero(ret.b_sd) /\ SameIn(BlueOf)
    /\ ~SdIsZero(ret.r_sd) /\ ~SameIn(RedOf)


\* The last setPixel call made at pixel p.
LastCallAt(p) == set_pixel_calls[CHOOSE i \in CallsAt(p) : \A j \in CallsAt(p) : j <= i]

StoredAsRGB(pixel, call) ==
    /\ pixel.hi = 0
    /\ pixel.lo = call.r * 65536 + call.g * 256 + call.b

\* C27: every pixel written by apply_region_rgb_color_stats or
\* apply_region_lighting_transfer is stored as (r << 16) | (g << 8) | b, with
\* bits 24-31 equal to 0 whatever the original pixel's upper byte was, and
\* every pixel that is not written keeps its original 32-bit value.
C27_WrittenPixelsLoseUpperByte ==
    op \in {"apply", "transfer"} =>
        \A p \in DOMAIN ret.pixels :
            IF CallsAt(p) # {}
            THEN StoredAsRGB(ret.pixels[p], LastCallAt(p))
            ELSE ret.pixels[p] = before.pixels[p]

\* A call wrote a pixel whose upper byte was not 0 and left alone another
\* whose upper byte is not 0.
C27_Witness ==
    /\ op \in {"apply", "transfer"}
    /\ \E p, q \in DOMAIN ret.pixels :
          /\ CallsAt(p) # {} /\ before.pixels[p].hi # 0 /\ ret.pixels[p].hi = 0
          /\ CallsAt(q) = {} /\ ret.pixels[q].hi # 0


(***************************************************************************)
(* ImageArea (src/src/ui/image_area.py): the widget that keeps the loaded  *)
(* image, the selection box drawn with the mouse, the region of the image  *)
(* the box stands for and the statistics of that region.                   *)
(* A QPixmap is modelled as the QImage it holds (toImage and fromImage     *)
(* copy the 32-bit values); a QPoint is <<x, y>>, a QRect is               *)
(* <<left, top, right, bottom>>.  The label is LabelSize x LabelSize and   *)
(* shows the image scaled to fit, centred.                                 *)
(***************************************************************************)
LabelSize == 4

MaxApplies == 1

\* The images that can be loaded.
AreaImages == {PatternImage(2, 2, 1, 0, 2), PatternImage(1, 2, 0, 1, 0)}

\* The positions of the mouse events.
MousePoints == {<<0, 0>>, <<1, 2>>, <<3, 3>>}

\* The statistics handed to apply_from_color_stats (another area's).
AreaStats ==
    {calculate_region_rgb_color_stats(PatternImage(2, 2, 1, 0, 1), <<0, 0, 1, 1>>),
     calculate_region_rgb_color_stats(PatternImage(2, 2, 0, 0, 3), <<0, 0, 1, 1>>)}

\* Python int() of a rational: towards zero.
IntOf(q) == IF q[1] >= 0 THEN q[1] \div q[2] ELSE 0 - ((0 - q[1]) \div q[2])

\* QRect(start_point, current_point).normalized(): a rectangle whose right
\* (bottom) edge lies before its left (top) edge has the two swapped, keeping
\* its size.
Normalized(p1, p2) ==
    LET xs == IF p2[1] < p1[1] THEN <<p2[1] + 1, p1[1] - 1>> ELSE <<p1[1], p2[1]>>
        ys == IF p2[2] < p1[2] THEN <<p2[2] + 1, p1[2] - 1>> ELSE <<p1[2], p2[2]>>
    IN  <<xs[1], ys[1], xs[2], ys[2]>>

\* QRect.isValid, which is also the truth value of a QRect.
IsValid(rect) == rect[1] <= rect[3] /\ rect[2] <= rect[4]

\* The size of the pixmap scaled to the label with KeepAspectRatio.
ScaledSize(img) ==
    LET rw == (LabelSize * img.width) \div img.height
    IN  IF rw <= LabelSize
        THEN <<rw, LabelSize>>
        ELSE <<LabelSize, (LabelSize * img.height) \div img.width>>

\* _get_scaled_image_rect: the scaled pixmap centred in the label.
ScaledImageRect(img) ==
    LET size == ScaledSize(img)
        x == (LabelSize - size[1]) \div 2
        y == (LabelSize - size[2]) \div 2
    IN  <<x, y, x + size[1] - 1, y + size[2] - 1>>

\* The region of the image that the selection box stands for.
SelectedRegion(box, img) ==
    LET scaled_rect == ScaledImageRect(img)
        scale_x == Rat(img.width, scaled_rect[3] - scaled_rect[1] + 1)
        scale_y == Rat(img.height, scaled_rect[4] - scaled_rect[2] + 1)
    IN  <<IntOf(RMul(RInt(box[1] - scaled_rect[1]), scale_x)),
          IntOf(RMul(RInt(box[2] - scaled_rect[2]), scale_y)),
          IntOf(RMul(RInt(box[3] - scaled_rect[1]), scale_x)),
          IntOf(RMul(RInt(box[4] - scaled_rect[2]), scale_y))>>

\* ImageArea._calculate_selection_stats
calculate_selection_stats(self) ==
    IF self.selection_box = None \/ ~IsValid(self.selection_box) \/ self.image_pixmap = None
    THEN self
    ELSE IF ~IsValid(ScaledImageRect(self.image_pixmap))
    THEN self
    ELSE [self EXCEPT
             !.region_color_stats =
                 calculate_region_rgb_color_stats(
                     self.image_pixmap, SelectedRegion(self.selection_box, self.image_pixmap)),
             !.region = SelectedRegion(self.selection_box, self.image_pixmap)]

\* The widget object.
ImageAreaSelf ==
    [image_pixmap |-> image_pixmap, selection_box |-> selection_box, drawing |-> drawing,
     start_point |-> start_point, current_point |-> current_point,
     region_color_stats |-> region_color_stats, region |-> region]

\* The widget after a handler that was called name.
AreaBecomes(self, name) ==
    /\ image_pixmap' = self.image_pixmap
    /\ selection_box' = self.selection_box
    /\ drawing' = self.drawing
    /\ start_point' = self.start_point
    /\ current_point' = self.current_point
    /\ region_color_stats' = self.region_color_stats
    /\ region' = self.region
    /\ op' = name
    /\ UNCHANGED <<image, reference_image, color_stats, source_color_stats, ret,
                   before, set_pixel_calls, accum, tv_args, logvars>>

\* ImageArea.mousePressEvent; self.pixmap() is set once an image is loaded.
mousePressEvent(self, pos, button) ==
    IF self.image_pixmap # None /\ button = "LeftButton"
    THEN [self EXCEPT !.drawing = TRUE, !.start_point = pos, !.current_point = pos,
                      !.selection_box = None]
    ELSE self

\* ImageArea.mouseMoveEvent
mouseMoveEvent(self, pos) ==
    IF self.drawing THEN [self EXCEPT !.current_point = pos] ELSE self

\* ImageArea.update_selection_box
update_selection_box(self, box) ==
    calculate_selection_stats([self EXCEPT !.selection_box = box])

\* ImageArea.mouseReleaseEvent
mouseReleaseEvent(self, button) ==
    IF self.drawing /\ button = "LeftButton"
    THEN update_selection_box([self EXCEPT !.drawing = FALSE],
                              Normalized(self.start_point, self.current_point))
    ELSE self

\* ImageArea.clear_region
clear_region(self) ==
    [self EXCEPT !.selection_box = None, !.region = None, !.region_color_stats = None,
                 !.start_point = None, !.current_point = None, !.drawing = FALSE]

\* ImageArea.update_image; pixmap is None when the source cannot be loaded.
update_image(self, pixmap) ==
    IF pixmap = None THEN self ELSE [self EXCEPT !.image_pixmap = pixmap]

\* ImageArea.apply_from_color_stats
apply_from_color_stats(self, cs) ==
    IF self.region_color_stats = None \/ self.region = None
    THEN self
    ELSE calculate_selection_stats(
             [self EXCEPT !.image_pixmap =
                 apply_region_rgb_color_stats(self.image_pixmap, self.region,
                                              self.region_color_stats, cs).image])

InitArea ==
    /\ image = NoImage
    /\ reference_image = NoImage
    /\ region = None
    /\ color_stats = NoStats
    /\ source_color_stats = NoStats
    /\ ret = NoStats
    /\ op = "idle"
    /\ before = NoImage
    /\ set_pixel_calls = <<>>
    /\ accum = NoAccum
    /\ tv_args = NoArgs
    /\ LogControllerInit
    /\ ImageAreaInit

MousePress(pos, button) ==
    /\ AreaBecomes(mousePressEvent(ImageAreaSelf, pos, button), "mousePressEvent")
    /\ UNCHANGED applies

MouseMove(pos) ==
    /\ AreaBecomes(mouseMoveEvent(ImageAreaSelf, pos), "mouseMoveEvent")
    /\ UNCHANGED applies

MouseRelease(button) ==
    /\ AreaBecomes(mouseReleaseEvent(ImageAreaSelf, button), "mouseReleaseEvent")
    /\ UNCHANGED applies

ClearRegion ==
    /\ AreaBecomes(clear_region(ImageAreaSelf), "clear_region")
    /\ UNCHANGED applies

UpdateImage(pixmap) ==
    /\ AreaBecomes(update_image(ImageAreaSelf, pixmap), "update_image")
    /\ UNCHANGED applies

ApplyFromColorStats(cs) ==
    /\ applies < MaxApplies
    /\ AreaBecomes(apply_from_color_stats(ImageAreaSelf, cs), "apply_from_color_stats")
    /\ applies' = applies + 1

NextArea ==
    \/ \E pos \in MousePoints, button \in {"LeftButton", "RightButton"} :
          MousePress(pos, button)
    \/ \E pos \in MousePoints : MouseMove(pos)
    \/ \E button \in {"LeftButton", "RightButton"} : MouseRelease(button)
    \/ ClearRegion
    \/ \E pixmap \in AreaImages \cup {None} : UpdateImage(pixmap)
    \/ \E cs \in AreaStats : ApplyFromColorStats(cs)

SpecArea == InitArea /\ [][NextArea]_vars

\* C28 as stated: after any sequence of mouse press/move/release, image
\* load, clear_region and colour-apply operations, region is None if and
\* only if region_color_stats is None, and whenever both are set
\* region_color_stats equals the statistics of the current image over
\* region.
C28_RegionStatsCurrent ==
    /\ (region = None) <=> (region_color_stats = None)
    /\ (region # None /\ region_color_stats # None) =>
          region_color_stats = calculate_region_rgb_color_stats(image_pixmap, region)

\* The part of C28 that the code keeps: region and region_color_stats are
\* set and cleared together.
C28_RegionAndStatsSetTogether == (region = None) <=> (region_color_stats = None)


(***************************************************************************)
(* The module-level copies in src/src/lib/image_color.py, translated from  *)
(* that file statement by statement: the first loop keeps the running sums *)
(* and the value lists, the pixel loop writes as it goes.                  *)
(***************************************************************************)
\* One pass of the body of the first loop of lib calculate at (x, y).
LibCollected(acc, img, x, y) ==
    IF x < 0 \/ y < 0 \/ x >= img.width \/ y >= img.height
    THEN acc
    ELSE LET pixel == PixelAt(img, x, y)
             r == (pixel.lo \div 65536) % 256
             g == (pixel.lo \div 256) % 256
             b == pixel.lo % 256
             white_value == Rat(r + g + b, 3)
         IN  [r_sum |-> acc.r_sum + r, g_sum |-> acc.g_sum + g, b_sum |-> acc.b_sum + b,
              white_sum |-> RAdd(acc.white_sum, white_value),
              r_values |-> Append(acc.r_values, RInt(r)),
              g_values |-> Append(acc.g_values, RInt(g)),
              b_values |-> Append(acc.b_values, RInt(b)),
              white_values |-> Append(acc.white_values, white_value),
              pixel_count |-> acc.pixel_count + 1]

\* "for x in range(x1, x2 + 1): ..." in row y, for the columns xlo .. xhi:
\* those of the first half, then those of the second half on what the first
\* half left (the first half is evaluated before the second half starts).
RECURSIVE LibFirstLoopX(_, _, _, _, _)
LibFirstLoopX(acc, img, xlo, xhi, y) ==
    IF xlo > xhi THEN acc
    ELSE IF xlo = xhi THEN LibCollected(acc, img, xlo, y)
    ELSE LET first == LibFirstLoopX(acc, img, xlo, (xlo + xhi) \div 2, y)
         IN  CASE first = first -> LibFirstLoopX(first, img, (xlo + xhi) \div 2 + 1, xhi, y)

\* "for y in range(y1, y2 + 1): for x in range(x1, x2 + 1): ..." for the rows
\* ylo .. yhi, by halves in the same way.
RECURSIVE LibFirstLoop(_, _, _, _, _)
LibFirstLoop(acc, img, ylo, yhi, rg) ==
    IF ylo > yhi THEN acc
    ELSE IF ylo = yhi THEN LibFirstLoopX(acc, img, rg[1], rg[3], ylo)
    ELSE LET first == LibFirstLoop(acc, img, ylo, (ylo + yhi) \div 2, rg)
         IN  CASE first = first -> LibFirstLoop(first, img, (ylo + yhi) \div 2 + 1, yhi, rg)

\* The part of lib calculate after the first loop.
LibStatsOf(acc) ==
    IF acc.pixel_count = 0
    THEN RGBColorStats(0, ZeroAvg, ZeroAvg, ZeroAvg, ZeroAvg, ZeroSd, ZeroSd, ZeroSd, ZeroSd)
    ELSE LET avg_r == Rat(acc.r_sum, acc.pixel_count)
             avg_g == Rat(acc.g_sum, acc.pixel_count)
             avg_b == Rat(acc.b_sum, acc.pixel_count)
             avg_white == RDiv(acc.white_sum, RInt(acc.pixel_count))
         IN  RGBColorStats(acc.pixel_count, avg_r, avg_g, avg_b, avg_white,
                 PopulationSd(SquaredDiffSum(acc.r_values, avg_r), acc.pixel_count),
                 PopulationSd(SquaredDiffSum(acc.g_values, avg_g), acc.pixel_count),
                 PopulationSd(SquaredDiffSum(acc.b_values, avg_b), acc.pixel_count),
                 PopulationSd(SquaredDiffSum(acc.white_values, avg_white), acc.pixel_count))

\* lib/image_color.calculate_region_rgb_color_stats
lib_calculate_region_rgb_color_stats(img, rg) ==
    CASE img = img /\ rg = rg ->
        LibStatsOf(LibFirstLoop([r_sum |-> 0, g_sum |-> 0, b_sum |-> 0,
                                 white_sum |-> RInt(0),
                                 r_values |-> <<>>, g_values |-> <<>>, b_values |-> <<>>,
                                 white_values |-> <<>>, pixel_count |-> 0],
                                img, rg[2], rg[4], rg))

\* One pass of the body of the pixel loop of lib apply at (x, y).
LibWritten(st, x, y, color_stats_, target_color_stats) ==
    IF x < 0 \/ y < 0 \/ x >= st.image.width \/ y >= st.image.height
    THEN st
    ELSE LET pixel == PixelAt(st.image, x, y)
             r == (pixel.lo \div 65536) % 256
             g == (pixel.lo \div 256) % 256
             b == pixel.lo % 256
             new_r == Max(0, Min(255, Round(lib_transform_value(RInt(r),
                          color_stats_.avg_r, color_stats_.r_sd,
                          target_color_stats.avg_r, target_color_stats.r_sd))))
             new_g == Max(0, Min(255, Round(lib_transform_value(RInt(g),
                          color_stats_.avg_g, color_stats_.g_sd,
                          target_color_stats.avg_g, target_color_stats.g_sd))))
             new_b == Max(0, Min(255, Round(lib_transform_value(RInt(b),
                          color_stats_.avg_b, color_stats_.b_sd,
                          target_color_stats.avg_b, target_color_stats.b_sd))))
         IN  [image |-> SetPixel(st.image, x, y,
                                 PixelOf(new_r * 65536 + new_g * 256 + new_b)),
              calls |-> Append(st.calls, [x |-> x, y |-> y, r |-> new_r, g |-> new_g,
                                          b |-> new_b])]

\* "for x in range(x1, x2 + 1): ..." in row y, for the columns xlo .. xhi,
\* by halves as in LibFirstLoopX.
RECURSIVE LibPixelLoopX(_, _, _, _, _, _)
LibPixelLoopX(st, xlo, xhi, y, color_stats_, target_color_stats) ==
    IF xlo > xhi THEN st
    ELSE IF xlo = xhi THEN LibWritten(st, xlo, y, color_stats_, target_color_stats)
    ELSE LET first == LibPixelLoopX(st, xlo, (xlo + xhi) \div 2, y,
                                    color_stats_, target_color_stats)
         IN  CASE first = first ->
                     LibPixelLoopX(first, (xlo + xhi) \div 2 + 1, xhi, y,
                                   color_stats_, target_color_stats)

\* "for y in range(y1, y2 + 1): for x in range(x1, x2 + 1): ..." for the rows
\* ylo .. yhi.
RECURSIVE LibPixelLoop(_, _, _, _, _, _)
LibPixelLoop(st, ylo, yhi, rg, color_stats_, target_color_stats) ==
    IF ylo > yhi THEN st
    ELSE IF ylo = yhi
    THEN LibPixelLoopX(st, rg[1], rg[3], ylo, color_stats_, target_color_stats)
    ELSE LET first == LibPixelLoop(st, ylo, (ylo + yhi) \div 2, rg,
                                   color_stats_, target_color_stats)
         IN  CASE first = first ->
                     LibPixelLoop(first, (ylo + yhi) \div 2 + 1, yhi, rg,
                                  color_stats_, target_color_stats)

\* lib/image_color.apply_region_rgb_color_stats: the image after the call and
\* the setPixel calls made.
lib_apply_region_rgb_color_stats(img, rg, color_stats_, target_color_stats) ==
    CASE img = img /\ rg = rg /\ color_stats_ = color_stats_
                   /\ target_color_stats = target_color_stats ->
        LibPixelLoop([image |-> img, calls |-> <<>>], rg[2], rg[4], rg,
                     color_stats_, target_color_stats)

(***************************************************************************)
(* The two copies side by side: each call is made on the controller and on *)
(* the module-level function with the same arguments (each on its own copy *)
(* of the buffer), and ret keeps what the two gave.                        *)
(***************************************************************************)
CompareCalculate(rg) ==
    /\ op = "idle"
    /\ region' = rg
    /\ ret' = [controller |-> calculate_region_rgb_color_stats(image, rg),
               lib |-> lib_calculate_region_rgb_color_stats(image, rg)]
    /\ op' = "calculate"
    /\ before' = image
    /\ UNCHANGED <<image, reference_image, color_stats, source_color_stats,
                   set_pixel_calls, accum, tv_args, logvars, areavars>>

CompareApply(rg, cs, scs) ==
    /\ op = "idle"
    /\ region' = rg
    /\ color_stats' = cs
    /\ source_color_stats' = scs
    /\ ret' = [controller |-> apply_region_rgb_color_stats(image, rg, cs, scs),
               lib |-> lib_apply_region_rgb_color_stats(image, rg, cs, scs)]
    /\ op' = "apply"
    /\ before' = image
    /\ UNCHANGED <<image, reference_image, set_pixel_calls, accum, tv_args,
                   logvars, areavars>>

NextCompare ==
    /\ op = "idle"
    /\ \/ \E rg \in Regions : CompareCalculate(rg)
       \/ \E rg \in EdgeRegions :
             \E cs \in {calculate_region_rgb_color_stats(image, rg),
                        calculate_region_rgb_color_stats(PatternImage(2, 2, 1, 1, 0),
                                                         <<0, 0, 1, 1>>)},
                scs \in SampleStats :
                 CompareApply(rg, cs, scs)

SpecCompare == InitApply /\ [][NextCompare]_vars

\* C29: the two copies of the statistics and colour-shift code are
\* equivalent: for every buffer, region and statistics pair, the
\* module-level calculate_region_rgb_color_stats returns the same statistics
\* as the ImageController method, and the module-level
\* apply_region_rgb_color_stats makes the same setPixel calls and produces
\* the same buffer as the ImageController method.
C29_LibEqualsController ==
    op \in {"calculate", "apply"} => ret.lib = ret.controller

\* The two copies computed statistics with irrational deviations over a
\* region that sticks out of the buffer, or rewrote pixels.
C29_Witness ==
    \/ /\ op = "calculate"
       /\ ret.controller.pixel_count >= 2
       /\ ~SdIsZero(ret.controller.r_sd)
       /\ region[1] < 0
    \/ /\ op = "apply"
       /\ ret.controller.calls # <<>>
       /\ ret.controller.image # before

=============================================================================
